---- MODULE Spec2Model ----
(***************************************************************************)
(* Tally: the holdings and metrics deriver (src/unnamed/part_001), the     *)
(* rate solver (src/unnamed/part_002) and the types they work on           *)
(* (src/unnamed/part_000, src/unnamed/part_004).                           *)
(*                                                                         *)
(* Numbers.  Quantities, amounts, fees and prices are drawn from small     *)
(* sets of integers.  The running cost is a JavaScript number produced by  *)
(* divisions; it is kept as an exact fraction [n, d] in lowest terms, so   *)
(* what is checked is the arithmetic the code writes down, not the         *)
(* rounding of IEEE doubles.                                               *)
(*                                                                         *)
(* Dates.  An event's date is a 'YYYY-MM-DD' string; the code only compares*)
(* dates (localeCompare, which on ISO dates is chronological order) and    *)
(* subtracts them (getTime).  A date is modelled as its distance from a    *)
(* fixed calendar day, counted in years of 365.25 days, so that the year   *)
(* fractions of the rate solver are whole numbers and Math.pow is a        *)
(* repeated multiplication.                                                *)
(***************************************************************************)
EXTENDS Integers, Sequences, FiniteSets, TLC

(***************************************************************************)
(* Bounds of the model.                                                    *)
(***************************************************************************)
MaxEvents == 3
MaxCalls == 2
MaxFlows == 3
\* The clock at the first call, and the latest it gets to.
FirstCall == 5
LastCall == 6

(***************************************************************************)
(* Exact fractions.                                                        *)
(***************************************************************************)
Abs(x) == IF x < 0 THEN -x ELSE x

RECURSIVE Gcd(_, _)
Gcd(a, b) == IF b = 0 THEN a ELSE Gcd(b, a % b)

Rat(n, d) ==
  LET s == IF d < 0 THEN -1 ELSE 1
      g == Gcd(Abs(n), Abs(d))
  IN  [n |-> (s * n) \div g, d |-> (s * d) \div g]

RInt(i) == [n |-> i, d |-> 1]
RAdd(a, b) == Rat(a.n * b.d + b.n * a.d, a.d * b.d)
RSub(a, b) == Rat(a.n * b.d - b.n * a.d, a.d * b.d)
RMul(a, b) == Rat(a.n * b.n, a.d * b.d)
RDiv(a, b) == Rat(a.n * b.d, a.d * b.n)
RLess(a, b) == a.n * b.d < b.n * a.d
RZero == RInt(0)

(***************************************************************************)
(* The numbers of the rate solver.  Its arithmetic runs over many orders   *)
(* of magnitude and is compared with a tolerance of 1e-7, so it is kept as *)
(* a decimal floating-point number of 12 significant digits,               *)
(*   [s, h, l, e]  =  s * (h * 10^6 + l) * 10^e,   100000 <= h <= 999999,  *)
(* every result rounded to 12 digits, to nearest and ties to even, as the  *)
(* 53 bits of an IEEE double are.  Integers up to 10^12 and the constants  *)
(* 0.1, 0.99, 1e-7 and 365.25 are exact.                                   *)
(***************************************************************************)
P10(n) == <<1, 10, 100, 1000, 10000, 100000, 1000000, 10000000, 100000000, 1000000000>>[n + 1]

Digits(n) ==
  IF n < 10 THEN 1 ELSE IF n < 100 THEN 2 ELSE IF n < 1000 THEN 3
  ELSE IF n < 10000 THEN 4 ELSE IF n < 100000 THEN 5 ELSE IF n < 1000000 THEN 6
  ELSE IF n < 10000000 THEN 7 ELSE IF n < 100000000 THEN 8 ELSE IF n < 1000000000 THEN 9
  ELSE 10

NumZero == [s |-> 0, h |-> 0, l |-> 0, e |-> 0]

\* One more in the last of the 12 digits <<h, l>>.
RoundUp(s, h, l, e) ==
  IF l < 999999 THEN [s |-> s, h |-> h, l |-> l + 1, e |-> e]
  ELSE IF h < 999999 THEN [s |-> s, h |-> h + 1, l |-> 0, e |-> e]
  ELSE [s |-> s, h |-> 100000, l |-> 0, e |-> e + 1]

\* The 12 digits <<h, l>> rounded to nearest, ties to even, as IEEE 754 rounds:
\* r holds the digits cut after them, half is 5 in the first of these, and
\* sticky says that a digit other than 0 was cut after r.
Rounded(s, h, l, e, r, half, sticky) ==
  IF r > half \/ (r = half /\ (sticky \/ l % 2 = 1))
  THEN RoundUp(s, h, l, e)
  ELSE [s |-> s, h |-> h, l |-> l, e |-> e]

\* The magnitude h * 10^6 + l (l < 10^6, h < 10^10) times 10^e, rounded to 12
\* digits; sticky says that the magnitude had digits other than 0 after l.
RoundNorm(s, h, l, e, sticky) ==
  IF h = 0 /\ l = 0 THEN NumZero
  ELSE IF h >= 1000000
       THEN LET c == Digits(h) - 6
            IN  Rounded(s, h \div P10(c), (h % P10(c)) * P10(6 - c) + l \div P10(c), e + c,
                        l % P10(c), 5 * P10(c - 1), sticky)
  ELSE IF h >= 100000 THEN [s |-> s, h |-> h, l |-> l, e |-> e]
  ELSE IF h > 0
       THEN LET z == 6 - Digits(h)
            IN  [s |-> s, h |-> h * P10(z) + l \div P10(6 - z),
                 l |-> (l % P10(6 - z)) * P10(z), e |-> e - z]
  ELSE LET z == 6 - Digits(l)
       IN  [s |-> s, h |-> l * P10(z), l |-> 0, e |-> e - 6 - z]

\* The magnitude h * 10^6 + l times 10^e, all of its digits given.
Norm(s, h, l, e) == RoundNorm(s, h, l, e, FALSE)

Sign(n) == IF n < 0 THEN -1 ELSE IF n > 0 THEN 1 ELSE 0

\* n * 10^e for an integer n.
Dec(n, e) == Norm(Sign(n), Abs(n) \div 1000000, Abs(n) % 1000000, e)
Num(n) == Dec(n, 0)

NumNeg(a) == [a EXCEPT !.s = -a.s]
NumAbs(a) == [a EXCEPT !.s = IF a.s = 0 THEN 0 ELSE 1]

\* The magnitude <<h, l>> shifted right by n digits, 0 <= n.
ShiftRight(h, l, n) ==
  IF n = 0 THEN <<h, l>>
  ELSE IF n < 6 THEN <<h \div P10(n), (h % P10(n)) * P10(6 - n) + l \div P10(n)>>
  ELSE IF n < 12 THEN <<0, h \div P10(n - 6)>>
  ELSE <<0, 0>>

\* The digits of <<h, l>> that a shift right by n cuts are not all 0.
CutBy(h, l, n) ==
  IF n <= 0 THEN FALSE
  ELSE IF n < 6 THEN l % P10(n) # 0
  ELSE IF n < 12 THEN l # 0 \/ h % P10(n - 6) # 0
  ELSE h # 0 \/ l # 0

\* The sum of the magnitudes <<ah, al>> and <<bh, bl>> with signs as and bs;
\* sticky says that <<bh, bl>> had digits other than 0 cut, and then it is the
\* smaller of the two.
AddSigned(as, ah, al, bs, bh, bl, e, sticky) ==
  IF as = bs
  THEN RoundNorm(as, ah + bh + (al + bl) \div 1000000, (al + bl) % 1000000, e, sticky)
  ELSE LET t == al - bl - (IF sticky THEN 1 ELSE 0)
           h == ah - bh + t \div 1000000
       IN  IF h < 0
           THEN RoundNorm(bs, bh - ah + (bl - al) \div 1000000, (bl - al) % 1000000, e, FALSE)
           ELSE RoundNorm(as, h, t % 1000000, e, sticky)

\* a + b where a.e >= b.e and neither is zero; a is taken with two digits
\* more than it has and b is aligned to it.
AddOrdered(a, b) ==
  LET d == a.e - b.e
      bs == IF d = 0 THEN <<b.h * 100 + b.l \div 10000, (b.l % 10000) * 100>>
            ELSE IF d = 1 THEN <<b.h * 10 + b.l \div 100000, (b.l % 100000) * 10>>
            ELSE ShiftRight(b.h, b.l, d - 2)
  IN  AddSigned(a.s, a.h * 100 + a.l \div 10000, (a.l % 10000) * 100,
                b.s, bs[1], bs[2], a.e - 2, CutBy(b.h, b.l, d - 2))

NumAdd(a, b) ==
  IF a.s = 0 THEN b
  ELSE IF b.s = 0 THEN a
  ELSE IF a.e >= b.e THEN AddOrdered(a, b) ELSE AddOrdered(b, a)

NumSub(a, b) == NumAdd(a, NumNeg(b))
NumLess(a, b) == NumSub(a, b).s < 0

NumMul(a, b) ==
  IF a.s = 0 \/ b.s = 0 THEN NumZero
  ELSE
    LET a2 == a.h \div 100
        a1 == (a.h % 100) * 100 + a.l \div 10000
        a0 == a.l % 10000
        b2 == b.h \div 100
        b1 == (b.h % 100) * 100 + b.l \div 10000
        b0 == b.l % 10000
        c0 == a0 * b0
        c1 == a0 * b1 + a1 * b0 + c0 \div 10000
        c2 == a0 * b2 + a1 * b1 + a2 * b0 + c1 \div 10000
        c3 == a1 * b2 + a2 * b1 + c2 \div 10000
        c4 == a2 * b2 + c3 \div 10000
        d3 == c3 % 10000
        d2 == c2 % 10000
    IN  RoundNorm(a.s * b.s, c4, d3 * 100 + d2 \div 100, a.e + b.e + 10,
                  d2 % 100 # 0 \/ c1 % 10000 # 0 \/ c0 % 10000 # 0)

\* F(x) with x evaluated before F is entered, as a call evaluates its
\* argument first.
CallWith(F(_), x) == CHOOSE r \in { F(v) : v \in {x} } : TRUE

\* Long division: the quotient digits of N / B, one a step; N < 10 * B.
\* i digits are done, <<qh, ql>> holds them (8 digits in qh, then 6 in ql);
\* the 14 digits are returned with what is left of N.
RECURSIVE DivDigits(_, _, _, _, _, _, _)
DivDigits(nh, nl, bh, bl, i, qh, ql) ==
  IF i = 14 THEN <<qh, ql, nh, nl>>
  ELSE
    LET est == (nh * 100 + nl \div 10000) \div (bh * 100 + bl \div 10000)
        tl == nl - est * bl
        th == nh - est * bh + tl \div 1000000
        tlo == tl % 1000000
        \* est is the digit, or one more, or one less
        low == th < 0
        high == ~low /\ (th > bh \/ (th = bh /\ tlo >= bl))
        d == IF low THEN est - 1 ELSE IF high THEN est + 1 ELSE est
        ul == IF low THEN tlo + bl ELSE IF high THEN tlo - bl ELSE tlo
        rh == (IF low THEN th + bh ELSE IF high THEN th - bh ELSE th) + ul \div 1000000
        rl == ul % 1000000
        r10l == rl * 10
    IN  CallWith(LAMBDA n : DivDigits(n[1], n[2], bh, bl, i + 1, n[3], n[4]),
                 << rh * 10 + r10l \div 1000000, r10l % 1000000,
                    IF i < 8 THEN qh * 10 + d ELSE qh,
                    IF i < 8 THEN ql ELSE ql * 10 + d >>)

NumDiv(a, b) ==
  IF a.s = 0 THEN NumZero
  ELSE LET q == DivDigits(a.h, a.l, b.h, b.l, 0, 0, 0)
       IN  RoundNorm(a.s * b.s, q[1], q[2], a.e - b.e - 13, q[3] # 0 \/ q[4] # 0)

\* x^k for an integer k >= 0.
RECURSIVE NumPowInt(_, _)
NumPowInt(x, k) == IF k = 0 THEN Num(1) ELSE NumMul(NumPowInt(x, k - 1), x)

\* The integer a whole number stands for; the whole part of any other.
NumToInt(a) ==
  IF a.s = 0 THEN 0
  ELSE LET m == ShiftRight(a.h, a.l, -a.e) IN a.s * (m[1] * 1000000 + m[2])

IsWhole(a) == Num(NumToInt(a)) = a

\* c[n] + u * (c[n+1] + u * (... + u * c[Len(c)])).
RECURSIVE Horner(_, _, _)
Horner(c, u, n) ==
  IF n = Len(c) THEN c[n]
  ELSE CallWith(LAMBDA rest : NumAdd(c[n], NumMul(u, rest)), Horner(c, u, n + 1))

\* The natural logarithm of 2, and of x > 0: x is halved or doubled k times
\* into [0.7, 1.4], where ln x = 2z * (1 + zz/3 + zz^2/5 + ... + zz^7/15),
\* z = (x-1)/(x+1), zz = z^2.
Ln2 == Norm(1, 693147, 180560, -12)

AtanhCoefficients ==
  << Num(1), Norm(1, 333333, 333333, -12), Norm(1, 200000, 0, -12),
     Norm(1, 142857, 142857, -12), Norm(1, 111111, 111111, -12),
     Norm(1, 909090, 909091, -13), Norm(1, 769230, 769231, -13),
     Norm(1, 666666, 666667, -13) >>

AtanhSeries(z) ==
  CallWith(LAMBDA series : NumMul(NumMul(Num(2), z), series),
           CallWith(LAMBDA zz : Horner(AtanhCoefficients, zz, 1), NumMul(z, z)))

LnNear1(x) == CallWith(AtanhSeries, NumDiv(NumSub(x, Num(1)), NumAdd(x, Num(1))))

RECURSIVE LnScaled(_, _)
LnScaled(x, k) ==
  IF NumLess(Dec(14, -1), x) THEN LnScaled(NumMul(x, Dec(5, -1)), k + 1)
  ELSE IF NumLess(x, Dec(7, -1)) THEN LnScaled(NumMul(x, Num(2)), k - 1)
  ELSE CallWith(LAMBDA near1 : NumAdd(near1, NumMul(Num(k), Ln2)), LnNear1(x))

NumLn(x) == LnScaled(x, 0)

\* e^t for |t| < 5: the series 1 + u + u^2/2! + ... + u^11/11! at u = t/16,
\* squared 4 times.
ExpCoefficients ==
  << Num(1), Num(1), Norm(1, 500000, 0, -12), Norm(1, 166666, 666667, -12),
     Norm(1, 416666, 666667, -13), Norm(1, 833333, 333333, -14),
     Norm(1, 138888, 888889, -14), Norm(1, 198412, 698413, -15),
     Norm(1, 248015, 873016, -16), Norm(1, 275573, 192240, -17),
     Norm(1, 275573, 192240, -18), Norm(1, 250521, 83854, -19) >>

RECURSIVE Squared(_, _)
Squared(x, times) ==
  IF times = 0 THEN x
  ELSE CallWith(LAMBDA v : Squared(NumMul(v, v), times - 1), x)

ExpSeries(u) == Horner(ExpCoefficients, u, 1)

NumExp(t) == Squared(CallWith(ExpSeries, NumMul(t, Dec(625, -4))), 4)

\* x^y for x > 0 and 0 <= y: the whole part of y by multiplication, the rest
\* as e^(f * ln x).
NumPow(x, y) ==
  IF IsWhole(y) THEN NumPowInt(x, NumToInt(y))
  ELSE CallWith(LAMBDA rest : NumMul(NumPowInt(x, NumToInt(y)), rest),
                CallWith(NumExp, CallWith(LAMBDA lnx : NumMul(NumSub(y, Num(NumToInt(y))), lnx),
                                          NumLn(x))))

(***************************************************************************)
(* Event types (part_000: EventType) and the type guards.                  *)
(***************************************************************************)
TRADE_BUY == "TRADE_BUY"
TRADE_SELL == "TRADE_SELL"
DIVIDEND == "DIVIDEND"
FEE == "FEE"
CASH_IN == "CASH_IN"
CASH_OUT == "CASH_OUT"

isTradeEvent(event) == event.type = TRADE_BUY \/ event.type = TRADE_SELL
isDividendEvent(event) == event.type = DIVIDEND
isFeeEvent(event) == event.type = FEE
isCashEvent(event) == event.type = CASH_IN \/ event.type = CASH_OUT

\* An optional number (fee?: number) is <<>> when absent and <<v>> when present.
\* OrZero(x) is the code's (x || 0).
OrZero(opt) == IF opt = <<>> THEN 0 ELSE opt[1]

(***************************************************************************)
(* Input data.  An ISIN is a string of 12 characters, kept as a sequence   *)
(* of characters so that substring(0, 6) can be taken.                     *)
(***************************************************************************)
IsinA == <<"N", "O", "0", "0", "1", "0", "0", "9", "6", "9", "8", "5">>
IsinB == <<"U", "S", "0", "3", "7", "8", "3", "3", "1", "0", "0", "5">>
Isins == {IsinA, IsinB}

\* Two calendar dates 1461 days (four years of 365.25 days) apart.
Dates == {0, 4}

Trade(type, isin, date, quantity, amount, fee) ==
  [type |-> type, isin |-> isin, date |-> date, quantity |-> quantity,
   amount |-> amount, fee |-> fee]

Dividend(isin, date, amount) ==
  [type |-> DIVIDEND, isin |-> isin, date |-> date, quantity |-> 0,
   amount |-> amount, fee |-> <<>>]

\* FEE, CASH_IN and CASH_OUT events carry no isin, quantity or fee.
Other(type, date, amount) ==
  [type |-> type, isin |-> <<>>, date |-> date, quantity |-> 0,
   amount |-> amount, fee |-> <<>>]

Instrument(isin, ticker, name) == [isin |-> isin, ticker |-> ticker, name |-> name]
InstA == Instrument(IsinA, <<"E", "Q", "N", "R">>, "Equinor")
InstB == Instrument(IsinB, <<"A", "A", "P", "L">>, "Apple")

\* Every trade of one instrument over two dates, quantities 1 and 2, at 3 per
\* share, buys with and without a fee; two dividends; and 13 shares bought
\* for 57 and sold.
FoldEvents ==
  { Trade(TRADE_BUY, IsinA, d, q, 3 * q, f) :
      d \in Dates, q \in {1, 2}, f \in {<<>>, <<1>>} }
  \cup { Trade(TRADE_SELL, IsinA, d, q, 4 * q, <<>>) : d \in Dates, q \in {1, 2} }
  \cup { Dividend(IsinA, 4, a) : a \in {1, 2} }
  \cup { Trade(TRADE_BUY, IsinA, 0, 13, 57, <<>>), Trade(TRADE_SELL, IsinA, 4, 13, 60, <<>>) }

\* Events of two instruments and an account-level event.
MixedEvents ==
  { Trade(TRADE_BUY, IsinA, 0, 2, 6, <<1>>),
    Trade(TRADE_BUY, IsinA, 4, 1, 4, <<>>),
    Trade(TRADE_BUY, IsinA, 0, 13, 57, <<>>),
    Trade(TRADE_SELL, IsinA, 4, 1, 5, <<>>),
    Dividend(IsinA, 4, 1),
    Trade(TRADE_BUY, IsinB, 0, 1, 2, <<>>),
    Trade(TRADE_BUY, IsinB, 4, 2, 5, <<1>>),
    Trade(TRADE_SELL, IsinB, 4, 2, 6, <<1>>),
    Dividend(IsinB, 0, 2),
    Other(CASH_IN, 0, 9) }

\* A Map<string, number> is a function on the keys it holds.
NoPrices == [i \in {} |-> 0]
Prices(a, b) == [i \in Isins |-> IF i = IsinA THEN a ELSE b]

\* Reference data: [instruments, currentPrices], complete and incomplete.
RefData ==
  { [instruments |-> <<>>, currentPrices |-> NoPrices],
    [instruments |-> <<InstA>>, currentPrices |-> [i \in {IsinA} |-> 2]],
    [instruments |-> <<InstA, InstB>>, currentPrices |-> Prices(1, 2)],
    [instruments |-> <<InstB, InstA>>, currentPrices |-> Prices(2, 1)],
    [instruments |-> <<InstB>>, currentPrices |-> [i \in {IsinB} |-> 2]] }

SeqsUpTo(S, n) == UNION { [1..k -> S] : k \in 0..n }

(***************************************************************************)
(* Array.prototype.sort: a stable sort by a comparator.  before(a, b) is   *)
(* "the comparator puts a strictly before b" (compare(a, b) < 0).          *)
(***************************************************************************)
\* before[i, j] is "the comparator puts s[i] strictly before s[j]"
\* (compare(s[i], s[j]) < 0).  An element's place in the result: after every
\* element the comparator puts before it, and after the earlier elements the
\* comparator does not order.
StableSort(s, before) ==
  LET rank(i) == 1 + Cardinality({ j \in 1..Len(s) :
                       \/ before[j, i]
                       \/ (~before[i, j] /\ j < i) })
  IN  [p \in 1..Len(s) |-> s[CHOOSE i \in 1..Len(s) : rank(i) = p]]

(***************************************************************************)
(* deriveHoldings, part_001 lines 5-73.                                    *)
(***************************************************************************)
\* line 10: new Map(instruments.map(i => [i.isin, i])); a later record of the
\* same isin replaces an earlier one.  <<>> stands for undefined.
RECURSIVE InstrumentMapGet(_, _)
InstrumentMapGet(instruments, isin) ==
  IF instruments = <<>> THEN <<>>
  ELSE IF instruments[Len(instruments)].isin = isin
       THEN <<instruments[Len(instruments)]>>
       ELSE InstrumentMapGet(SubSeq(instruments, 1, Len(instruments) - 1), isin)

\* byIsin is a Map, iterated in insertion order: a sequence of entries
\* [isin, trades, dividends] in the order in which the isins were first set.
ByIsinIndex(byIsin, isin) ==
  IF \E i \in 1..Len(byIsin) : byIsin[i].isin = isin
  THEN CHOOSE i \in 1..Len(byIsin) : byIsin[i].isin = isin
  ELSE 0

\* GroupEvent with a dividend of an isin not yet seen left out of the map.
GroupEvent_DropsEarlyDividend(byIsin, event) ==
  LET i == ByIsinIndex(byIsin, event.isin)
      existing == IF i = 0 THEN [isin |-> event.isin, trades |-> <<>>, dividends |-> <<>>]
                  ELSE byIsin[i]
  IN  IF isTradeEvent(event)
      THEN IF i = 0 THEN Append(byIsin, [existing EXCEPT !.trades = Append(@, event)])
           ELSE [byIsin EXCEPT ![i].trades = Append(@, event)]
      ELSE IF isDividendEvent(event) /\ i # 0
           THEN [byIsin EXCEPT ![i].dividends = Append(@, event)]
           ELSE byIsin

\* lines 14-22: one pass of the grouping loop.
GroupEvent(byIsin, event) ==
  LET i == ByIsinIndex(byIsin, event.isin)
      existing == IF i = 0 THEN [isin |-> event.isin, trades |-> <<>>, dividends |-> <<>>]
                  ELSE byIsin[i]
      updated == IF isTradeEvent(event)
                 THEN [existing EXCEPT !.trades = Append(@, event)]
                 ELSE [existing EXCEPT !.dividends = Append(@, event)]
  IN  IF isTradeEvent(event) \/ isDividendEvent(event)
      THEN IF i = 0 THEN Append(byIsin, updated) ELSE [byIsin EXCEPT ![i] = updated]
      ELSE byIsin

\* GroupEvents with the loop left at the first event that is neither a trade
\* nor a dividend.
RECURSIVE GroupEvents_StopsAtOther(_)
GroupEvents_StopsAtOther(events) ==
  IF events = <<>> THEN <<>>
  ELSE IF \E n \in 1..Len(events) : ~(isTradeEvent(events[n]) \/ isDividendEvent(events[n]))
       THEN GroupEvents_StopsAtOther(SubSeq(events, 1, Len(events) - 1))
       ELSE GroupEvent(GroupEvents_StopsAtOther(SubSeq(events, 1, Len(events) - 1)),
                       events[Len(events)])

\* lines 13-23.
RECURSIVE GroupEvents(_)
GroupEvents(events) ==
  IF events = <<>> THEN <<>>
  ELSE GroupEvent(GroupEvents(SubSeq(events, 1, Len(events) - 1)), events[Len(events)])

\* line 28: a.date.localeCompare(b.date) < 0.
DateBefore(a, b) == a.date < b.date

\* SortTrades with the sort left out.
SortTrades_Unsorted(trades) == trades

\* line 28.
SortTrades(trades) ==
  StableSort(trades, [i, j \in 1..Len(trades) |-> DateBefore(trades[i], trades[j])])

\* lines 29-30: the running state of the fold.
FoldStart == [quantity |-> 0, totalCost |-> RZero]

\* ApplyTrade with a sell skipped when it exceeds the quantity held.
ApplyTrade_SkipsOverSell(st, trade) ==
  IF trade.type = TRADE_BUY
  THEN [quantity |-> st.quantity + trade.quantity,
        totalCost |-> RAdd(st.totalCost, RInt(trade.amount + OrZero(trade.fee)))]
  ELSE IF st.quantity >= trade.quantity
       THEN [quantity |-> st.quantity - trade.quantity,
             totalCost |-> IF st.quantity = 0 THEN st.totalCost
                           ELSE RSub(st.totalCost,
                                     RMul(RDiv(st.totalCost, RInt(st.quantity)),
                                          RInt(trade.quantity)))]
       ELSE st

\* ApplyTrade with the fee of a buy left out of the cost.
ApplyTrade_DropsFee(st, trade) ==
  IF trade.type = TRADE_BUY
  THEN [quantity |-> st.quantity + trade.quantity,
        totalCost |-> RAdd(st.totalCost, RInt(trade.amount))]
  ELSE IF st.quantity > 0
       THEN [quantity |-> st.quantity - trade.quantity,
             totalCost |-> RSub(st.totalCost,
                                RMul(RDiv(st.totalCost, RInt(st.quantity)),
                                     RInt(trade.quantity)))]
       ELSE st

\* ApplyTrade with a sell taking its proceeds, not its average cost, off the cost.
ApplyTrade_SellAtProceeds(st, trade) ==
  IF trade.type = TRADE_BUY
  THEN [quantity |-> st.quantity + trade.quantity,
        totalCost |-> RAdd(st.totalCost, RInt(trade.amount + OrZero(trade.fee)))]
  ELSE IF st.quantity > 0
       THEN [quantity |-> st.quantity - trade.quantity,
             totalCost |-> RSub(st.totalCost, RInt(trade.amount))]
       ELSE st

\* lines 34-43: one pass of the fold.
ApplyTrade(st, trade) ==
  IF trade.type = TRADE_BUY
  THEN [quantity |-> st.quantity + trade.quantity,
        totalCost |-> RAdd(st.totalCost, RInt(trade.amount + OrZero(trade.fee)))]
  ELSE IF st.quantity > 0
       THEN LET avgCostPerShare == RDiv(st.totalCost, RInt(st.quantity))
            IN  [quantity |-> st.quantity - trade.quantity,
                 totalCost |-> RSub(st.totalCost,
                                    RMul(avgCostPerShare, RInt(trade.quantity)))]
       ELSE st

\* lines 33-44.
RECURSIVE FoldTrades(_)
FoldTrades(sortedTrades) ==
  IF sortedTrades = <<>> THEN FoldStart
  ELSE ApplyTrade(FoldTrades(SubSeq(sortedTrades, 1, Len(sortedTrades) - 1)),
                  sortedTrades[Len(sortedTrades)])

\* lines 34-43 as the code computes them: totalCost is a floating-point number,
\* and every +=, -=, / and * on it rounds.  quantity is the running quantity
\* before the trade.
ApplyTradeRounded(quantity, roundedCost, trade) ==
  IF trade.type = TRADE_BUY
  THEN NumAdd(roundedCost, Num(trade.amount + OrZero(trade.fee)))
  ELSE IF quantity > 0
       THEN LET avgCostPerShare == NumDiv(roundedCost, Num(quantity))
            IN  NumSub(roundedCost, NumMul(avgCostPerShare, Num(trade.quantity)))
       ELSE roundedCost

\* lines 33-44: totalCost as the floating-point number the fold ends with.
RECURSIVE FoldTradesRounded(_)
FoldTradesRounded(sortedTrades) ==
  IF sortedTrades = <<>> THEN NumZero
  ELSE LET before == SubSeq(sortedTrades, 1, Len(sortedTrades) - 1)
       IN  ApplyTradeRounded(FoldTrades(before).quantity, FoldTradesRounded(before),
                             sortedTrades[Len(sortedTrades)])

\* lines 46-48.
RECURSIVE SumDividends(_)
SumDividends(dividends) ==
  IF dividends = <<>> THEN 0
  ELSE SumDividends(SubSeq(dividends, 1, Len(dividends) - 1))
       + dividends[Len(dividends)].amount

\* Substring06 cut after 4 characters.
Substring06_Four(isin) == SubSeq(isin, 1, IF Len(isin) < 4 THEN Len(isin) ELSE 4)

\* isin.substring(0, 6).
Substring06(isin) == SubSeq(isin, 1, IF Len(isin) < 6 THEN Len(isin) ELSE 6)

\* line 52: currentPrices.get(isin) || 0.
CurrentPrice(currentPrices, isin) ==
  IF isin \in DOMAIN currentPrices THEN currentPrices[isin] ELSE 0

\* RoundedFields with the gain taken as cost less value.
RoundedFields_GainReversed(quantity, roundedCost, currentPrice) ==
  LET marketValue == NumMul(Num(quantity), Num(currentPrice))
      unrealizedGain == NumSub(roundedCost, marketValue)
  IN  [costBasis |-> roundedCost,
       averageCostPerShare |-> NumDiv(roundedCost, Num(quantity)),
       marketValue |-> marketValue,
       unrealizedGain |-> unrealizedGain,
       unrealizedGainPercent |->
         IF NumLess(NumZero, roundedCost)
         THEN NumMul(NumDiv(unrealizedGain, roundedCost), Num(100)) ELSE NumZero]

\* lines 53-66: the number fields of a Holding that come of totalCost, as the
\* floating-point numbers the code computes.
RoundedFields(quantity, roundedCost, currentPrice) ==
  LET marketValue == NumMul(Num(quantity), Num(currentPrice))
      unrealizedGain == NumSub(marketValue, roundedCost)
  IN  [costBasis |-> roundedCost,
       averageCostPerShare |-> NumDiv(roundedCost, Num(quantity)),
       marketValue |-> marketValue,
       unrealizedGain |-> unrealizedGain,
       unrealizedGainPercent |->
         IF NumLess(NumZero, roundedCost)
         THEN NumMul(NumDiv(unrealizedGain, roundedCost), Num(100)) ELSE NumZero]

\* lines 51-68: the Holding pushed for an isin whose quantity is positive.  Its
\* number fields are kept twice: as the real numbers the expressions stand
\* for, and (rounded) as the floating-point numbers the code computes.
MakeHolding(isin, st, roundedCost, totalDividendsReceived, instruments, currentPrices) ==
  LET instrument == InstrumentMapGet(instruments, isin)
      currentPrice == CurrentPrice(currentPrices, isin)
      marketValue == st.quantity * currentPrice
      unrealizedGain == RSub(RInt(marketValue), st.totalCost)
  IN  [isin |-> isin,
       ticker |-> IF instrument # <<>> /\ instrument[1].ticker # <<>>
                  THEN instrument[1].ticker ELSE Substring06(isin),
       name |-> IF instrument # <<>> /\ instrument[1].name # ""
                THEN instrument[1].name ELSE "Ukjent",
       quantity |-> st.quantity,
       costBasis |-> st.totalCost,
       averageCostPerShare |-> RDiv(st.totalCost, RInt(st.quantity)),
       currentPrice |-> currentPrice,
       marketValue |-> marketValue,
       unrealizedGain |-> unrealizedGain,
       unrealizedGainPercent |->
         IF RLess(RZero, st.totalCost)
         THEN RMul(RDiv(unrealizedGain, st.totalCost), RInt(100)) ELSE RZero,
       totalDividendsReceived |-> totalDividendsReceived,
       rounded |-> RoundedFields(st.quantity, roundedCost, currentPrice)]

\* Emits with every non-zero quantity pushed.
Emits_NonZero(st) == st.quantity # 0

\* line 50: a holding is pushed only for a positive quantity.
Emits(st) == st.quantity > 0

\* MarketValueBefore with the operands of the comparator swapped.
MarketValueBefore_Ascending(a, b) == a.marketValue < b.marketValue

\* line 72: b.marketValue - a.marketValue < 0.
MarketValueBefore(a, b) == b.marketValue < a.marketValue

\* line 72.
SortHoldings(holdings) ==
  StableSort(holdings,
             [i, j \in 1..Len(holdings) |-> MarketValueBefore(holdings[i], holdings[j])])

\* lines 27-70: the holdings pushed for the entries of byIsin, in order.
RECURSIVE HoldingsOf(_, _, _)
HoldingsOf(byIsin, instruments, currentPrices) ==
  IF byIsin = <<>> THEN <<>>
  ELSE LET rest == HoldingsOf(SubSeq(byIsin, 1, Len(byIsin) - 1), instruments, currentPrices)
           entry == byIsin[Len(byIsin)]
           st == FoldTrades(SortTrades(entry.trades))
       IN  IF Emits(st)
           THEN Append(rest, MakeHolding(entry.isin, st,
                                         FoldTradesRounded(SortTrades(entry.trades)),
                                         SumDividends(entry.dividends),
                                         instruments, currentPrices))
           ELSE rest

\* lines 5-73.
deriveHoldings(events, instruments, currentPrices) ==
  SortHoldings(HoldingsOf(GroupEvents(events), instruments, currentPrices))

(***************************************************************************)
(* calculateXIRR, part_002.                                                *)
(***************************************************************************)
MAX_ITERATIONS == 100
TOLERANCE == Dec(1, -7)
\* DAYS_IN_YEAR as the days of a calendar year.
DAYS_IN_YEAR_Calendar == Num(365)

DAYS_IN_YEAR == Dec(36525, -2)

\* null, and a number that may be null: <<>> or <<x>>.
Null == <<>>

\* A Date is a whole number of quarter days, so that a day (4) and a year of
\* 365.25 days (1461) are both whole.  new Date(event.date) of a date string,
\* which the model keeps as a number of such years.
NewDate(date) == date * 1461

\* Date.getTime(): milliseconds; a quarter day has 21600000 of them.
GetTime(date) == NumMul(Num(date), Dec(216, 5))

\* Math.pow(x, y) for x > 0 and y >= 0.
MathPow(x, y) == NumPow(x, y)

\* line 14: a.date.getTime() - b.date.getTime() < 0.
TimeBefore(a, b) == NumLess(GetTime(a.date), GetTime(b.date))

\* YearFractions of the flows as supplied, without the sort.
YearFractions_Unsorted(cashFlows) ==
  LET sorted == cashFlows
      firstDate == sorted[1].date
      msPerYear == NumMul(NumMul(NumMul(NumMul(DAYS_IN_YEAR, Num(24)), Num(60)), Num(60)),
                          Num(1000))
  IN  [i \in 1..Len(sorted) |->
         [amount |-> Num(sorted[i].amount),
          years |-> NumDiv(NumSub(GetTime(sorted[i].date), GetTime(firstDate)), msPerYear)]]

\* lines 14-20.
YearFractions(cashFlows) ==
  LET sorted == StableSort(cashFlows,
                  [i, j \in 1..Len(cashFlows) |-> TimeBefore(cashFlows[i], cashFlows[j])])
      firstDate == sorted[1].date
      msPerYear == NumMul(NumMul(NumMul(NumMul(DAYS_IN_YEAR, Num(24)), Num(60)), Num(60)),
                          Num(1000))
  IN  [i \in 1..Len(sorted) |->
         [amount |-> Num(sorted[i].amount),
          years |-> NumDiv(NumSub(GetTime(sorted[i].date), GetTime(firstDate)), msPerYear)]]

\* lines 29-31: the loop body for one flow, given 1 + rate and discountFactor.
AddFlow(npv, derivative, cf, onePlusRate, discountFactor) ==
  [npv |-> NumAdd(npv, NumDiv(cf.amount, discountFactor)),
   derivative |-> NumSub(derivative,
                         NumDiv(NumMul(cf.years, cf.amount),
                                NumMul(discountFactor, onePlusRate)))]

\* lines 28-32: one flow more.
NextFlow(acc, cf, onePlusRate) ==
  CallWith(LAMBDA discountFactor : AddFlow(acc.npv, acc.derivative, cf, onePlusRate,
                                           discountFactor),
           MathPow(onePlusRate, cf.years))

\* lines 25-32: npv and derivative after the first n flows.
RECURSIVE NpvAndDerivative(_, _, _)
NpvAndDerivative(yearFractions, rate, n) ==
  IF n = 0 THEN [npv |-> NumZero, derivative |-> NumZero]
  ELSE CallWith(LAMBDA acc : NextFlow(acc, yearFractions[n], NumAdd(Num(1), rate)),
                NpvAndDerivative(yearFractions, rate, n - 1))

\* Step returning the rate it was given when the new rate is within TOLERANCE.
Step_ReturnsCurrentRate(rate, newRate) ==
  IF NumLess(NumAbs(NumSub(newRate, rate)), TOLERANCE) THEN [returns |-> TRUE, rate |-> rate]
  ELSE IF NumLess(newRate, Dec(-99, -2)) THEN [returns |-> FALSE, rate |-> Dec(-99, -2)]
  ELSE IF NumLess(Num(10), newRate) THEN [returns |-> FALSE, rate |-> Num(10)]
  ELSE [returns |-> FALSE, rate |-> newRate]

\* lines 41-45: the new rate returned, clamped or kept.
Step(rate, newRate) ==
  IF NumLess(NumAbs(NumSub(newRate, rate)), TOLERANCE) THEN [returns |-> TRUE, rate |-> newRate]
  ELSE IF NumLess(newRate, Dec(-99, -2)) THEN [returns |-> FALSE, rate |-> Dec(-99, -2)]
  ELSE IF NumLess(Num(10), newRate) THEN [returns |-> FALSE, rate |-> Num(10)]
  ELSE [returns |-> FALSE, rate |-> newRate]

\* Decide with a flat slope taken for convergence.
Decide_FlatSlopeReturns(rate, npv, derivative) ==
  IF NumLess(NumAbs(npv), TOLERANCE) THEN [returns |-> TRUE, rate |-> rate]
  ELSE IF NumLess(NumAbs(derivative), TOLERANCE) THEN [returns |-> TRUE, rate |-> rate]
  ELSE Step(rate, NumSub(rate, NumDiv(npv, derivative)))

\* lines 34-45: what the loop does with npv and derivative.
Decide(rate, npv, derivative) ==
  IF NumLess(NumAbs(npv), TOLERANCE) THEN [returns |-> TRUE, rate |-> rate]
  ELSE IF NumLess(NumAbs(derivative), TOLERANCE)
       THEN [returns |-> FALSE, rate |-> NumAdd(rate, Dec(1, -1))]
  ELSE Step(rate, NumSub(rate, NumDiv(npv, derivative)))

\* The npv and derivative of a pass handed to Decide.
DecideSums(rate, sums) ==
  CallWith(LAMBDA s : Decide(rate, s.npv, s.derivative), sums)

\* lines 25-45: one pass of the loop; it returns a rate or goes on with one.
Iteration(yearFractions, rate) ==
  DecideSums(rate, NpvAndDerivative(yearFractions, rate, Len(yearFractions)))

\* NoRate with a flow of amount 0 taken for a positive one.
NoRate_ZeroIsPositive(cashFlows) ==
  \/ Len(cashFlows) < 2
  \/ ~(\E n \in 1..Len(cashFlows) : cashFlows[n].amount < 0)
  \/ ~(\E n \in 1..Len(cashFlows) : cashFlows[n].amount >= 0)

\* lines 8-12: the flows for which calculateXIRR returns null at once.
NoRate(cashFlows) ==
  \/ Len(cashFlows) < 2
  \/ ~(\E n \in 1..Len(cashFlows) : cashFlows[n].amount < 0)
  \/ ~(\E n \in 1..Len(cashFlows) : cashFlows[n].amount > 0)

\* line 7: the default guess.
Guess == Dec(1, -1)

\* lines 22-46: the loop before its first pass, and after one pass more; a
\* pass that has returned ends the loop.
Loop0 == [rate |-> Guess, xirr |-> Null, returns |-> FALSE]

Pass(loop, yearFractions) ==
  IF loop.returns THEN loop
  ELSE CallWith(LAMBDA it : IF it.returns
                            THEN [rate |-> loop.rate, xirr |-> <<it.rate>>, returns |-> TRUE]
                            ELSE [rate |-> it.rate, xirr |-> Null, returns |-> FALSE],
                Iteration(yearFractions, loop.rate))

\* lines 24-46: n passes of the loop, as n \div 2 passes and then the others.
RECURSIVE Passes(_, _, _)
Passes(loop, yearFractions, n) ==
  IF n = 0 THEN loop
  ELSE IF n = 1 THEN Pass(loop, yearFractions)
  ELSE CallWith(LAMBDA half : Passes(half, yearFractions, n - (n \div 2)),
                Passes(loop, yearFractions, n \div 2))

\* lines 7-49: the rate, or null.
calculateXIRR(cashFlows) ==
  IF NoRate(cashFlows) THEN Null
  ELSE Passes(Loop0, YearFractions(cashFlows), MAX_ITERATIONS).xirr

(***************************************************************************)
(* deriveCashFlows and derivePortfolioMetrics, part_001 lines 75-130.      *)
(***************************************************************************)
\* EventFlow with the fee of a sell taken off its proceeds.
EventFlow_SellNetOfFee(event) ==
  IF isCashEvent(event)
  THEN <<[date |-> NewDate(event.date),
          amount |-> IF event.type = CASH_IN THEN -event.amount ELSE event.amount]>>
  ELSE IF isTradeEvent(event)
  THEN LET tradeAmount == event.amount + OrZero(event.fee)
       IN  <<[date |-> NewDate(event.date),
              amount |-> IF event.type = TRADE_BUY THEN -tradeAmount
                         ELSE event.amount - OrZero(event.fee)]>>
  ELSE IF isDividendEvent(event) THEN <<[date |-> NewDate(event.date), amount |-> event.amount]>>
  ELSE IF isFeeEvent(event) THEN <<[date |-> NewDate(event.date), amount |-> -event.amount]>>
  ELSE <<>>

\* EventFlow with the fee of a buy left out of its flow.
EventFlow_BuyWithoutFee(event) ==
  IF isCashEvent(event)
  THEN <<[date |-> NewDate(event.date),
          amount |-> IF event.type = CASH_IN THEN -event.amount ELSE event.amount]>>
  ELSE IF isTradeEvent(event)
  THEN <<[date |-> NewDate(event.date),
          amount |-> IF event.type = TRADE_BUY THEN -event.amount ELSE event.amount]>>
  ELSE IF isDividendEvent(event) THEN <<[date |-> NewDate(event.date), amount |-> event.amount]>>
  ELSE IF isFeeEvent(event) THEN <<[date |-> NewDate(event.date), amount |-> -event.amount]>>
  ELSE <<>>

\* lines 79-90: the flow of one event; <<>> for an event of no known type.
EventFlow(event) ==
  IF isCashEvent(event)
  THEN <<[date |-> NewDate(event.date),
          amount |-> IF event.type = CASH_IN THEN -event.amount ELSE event.amount]>>
  ELSE IF isTradeEvent(event)
  THEN LET tradeAmount == event.amount + OrZero(event.fee)
       IN  <<[date |-> NewDate(event.date),
              amount |-> IF event.type = TRADE_BUY THEN -tradeAmount ELSE event.amount]>>
  ELSE IF isDividendEvent(event) THEN <<[date |-> NewDate(event.date), amount |-> event.amount]>>
  ELSE IF isFeeEvent(event) THEN <<[date |-> NewDate(event.date), amount |-> -event.amount]>>
  ELSE <<>>

\* lines 78-91.
RECURSIVE EventFlows(_)
EventFlows(events) ==
  IF events = <<>> THEN <<>>
  ELSE EventFlows(SubSeq(events, 1, Len(events) - 1)) \o EventFlow(events[Len(events)])

\* deriveCashFlows with the terminal flow left out only when the value is negative.
deriveCashFlows_TerminalAtZero(events, terminalValue, terminalDate) ==
  IF terminalValue >= 0
  THEN Append(EventFlows(events), [date |-> terminalDate, amount |-> terminalValue])
  ELSE EventFlows(events)

\* lines 75-98.
deriveCashFlows(events, terminalValue, terminalDate) ==
  IF terminalValue > 0
  THEN Append(EventFlows(events), [date |-> terminalDate, amount |-> terminalValue])
  ELSE EventFlows(events)

\* The sum of f[e] over the events of a list.
RECURSIVE Total(_, _)
Total(list, f) ==
  IF list = <<>> THEN 0
  ELSE Total(SubSeq(list, 1, Len(list) - 1), f) + f[list[Len(list)]]

\* Totals with the fees of the trades left out of totalFees.
Totals_FeeEventsOnly(events, holdings) ==
  LET these == { events[n] : n \in 1..Len(events) }
      totalInvested == Total(events, [e \in these |-> IF e.type = CASH_IN THEN e.amount ELSE 0])
      totalWithdrawn == Total(events, [e \in these |-> IF e.type = CASH_OUT THEN e.amount ELSE 0])
  IN  [totalInvested |-> totalInvested,
       totalWithdrawn |-> totalWithdrawn,
       netCashFlow |-> totalInvested - totalWithdrawn,
       currentValue |-> Total(holdings, [h \in { holdings[n] : n \in 1..Len(holdings) } |->
                                           h.marketValue]),
       totalDividends |-> Total(events, [e \in these |->
                                  IF isDividendEvent(e) THEN e.amount ELSE 0]),
       totalFees |-> Total(events, [e \in these |-> IF isFeeEvent(e) THEN e.amount ELSE 0])]

\* lines 101-116: the totals over the events, and the value of the holdings.
Totals(events, holdings) ==
  LET these == { events[n] : n \in 1..Len(events) }
      totalInvested == Total(events, [e \in these |-> IF e.type = CASH_IN THEN e.amount ELSE 0])
      totalWithdrawn == Total(events, [e \in these |-> IF e.type = CASH_OUT THEN e.amount ELSE 0])
  IN  [totalInvested |-> totalInvested,
       totalWithdrawn |-> totalWithdrawn,
       netCashFlow |-> totalInvested - totalWithdrawn,
       currentValue |-> Total(holdings, [h \in { holdings[n] : n \in 1..Len(holdings) } |->
                                           h.marketValue]),
       totalDividends |-> Total(events, [e \in these |->
                                  IF isDividendEvent(e) THEN e.amount ELSE 0]),
       totalFees |-> Total(events, [e \in these |->
                             IF isFeeEvent(e) THEN e.amount
                             ELSE IF isTradeEvent(e) THEN OrZero(e.fee) ELSE 0])]

\* PortfolioMetrics with xirrPercent not scaled.
PortfolioMetrics_PercentUnscaled(totals, xirr) ==
  [totalInvested |-> totals.totalInvested,
   totalWithdrawn |-> totals.totalWithdrawn,
   netCashFlow |-> totals.netCashFlow,
   currentValue |-> totals.currentValue,
   totalDividends |-> totals.totalDividends,
   totalFees |-> totals.totalFees,
   xirr |-> xirr,
   xirrPercent |-> xirr]

\* lines 120-129: the PortfolioMetrics returned.
PortfolioMetrics(totals, xirr) ==
  [totalInvested |-> totals.totalInvested,
   totalWithdrawn |-> totals.totalWithdrawn,
   netCashFlow |-> totals.netCashFlow,
   currentValue |-> totals.currentValue,
   totalDividends |-> totals.totalDividends,
   totalFees |-> totals.totalFees,
   xirr |-> xirr,
   xirrPercent |-> IF xirr # Null THEN <<NumMul(xirr[1], Num(100))>> ELSE Null]

(***************************************************************************)
(* The state: the arguments and locals of a call of deriveHoldings, of the *)
(* calls of derivePortfolioMetrics and calculateXIRR that follow it, the   *)
(* position of the call (pc) and the clock that new Date() reads.          *)
(***************************************************************************)
VARIABLES
  events,                  \* argument: LedgerEvent[]
  instruments,             \* argument: Instrument[]
  currentPrices,           \* argument: Map<string, number>
  pc,                      \* "group", "isin", "fold", "emit", "done": deriveHoldings;
                           \* "newton", "solved": derivePortfolioMetrics
  byIsin,                  \* line 11
  g,                       \* the entry of byIsin the loop of line 27 is at
  sortedTrades,            \* line 28
  k,                       \* the trades of sortedTrades the loop of line 33 has done
  quantity,                \* line 29
  totalCost,               \* line 30, as a real number
  roundedCost,             \* line 30, as the floating-point number the code holds
  totalDividendsReceived,  \* line 31
  holdings,                \* line 25
  result,                  \* the returned array; <<>> until the call returns
  now,                     \* the clock: what new Date() returns
  cashFlows,               \* part_001 line 117
  yearFractions,           \* part_002 line 17
  rate,                    \* part_002 line 22
  iter,                    \* part_002 line 24: i
  xirr,                    \* part_001 line 118
  returned,                \* the PortfolioMetrics the calls so far have returned
  heap,                    \* which arrays the variables refer to, the writes made
                           \* to arrays in place, and the arrays returned so far
  localStorage,            \* api-v2.ts: the item stored under STORAGE_KEY, or null
  app                      \* part_003: the TallyApp, or null before it is constructed

vars == <<events, instruments, currentPrices, pc, byIsin, g, sortedTrades, k,
          quantity, totalCost, roundedCost, totalDividendsReceived, holdings, result,
          now, cashFlows, yearFractions, rate, iter, xirr, returned, heap,
          localStorage, app>>

metricsVars == <<now, cashFlows, yearFractions, rate, iter, xirr, returned>>
holdingsVars == <<byIsin, g, sortedTrades, k, quantity, totalCost, roundedCost,
                  totalDividendsReceived, holdings, result>>

args == <<events, instruments, currentPrices>>
appVars == <<localStorage, app>>

\* An array (or map, or object) is known by the function and call that
\* allocated it and the variable it was allocated for; the arrays a caller
\* passes in are the caller's.
Allocated(by, site, call) == [by |-> by, site |-> site, call |-> call]
Argument(name) == Allocated("caller", name, 0)
NoObject == Allocated("", "", 0)

\* push, set and sort write to the array they are called on.
Write(by, to) == [by |-> by, to |-> to]
Writes(h, by, to) == [h EXCEPT !.writes = @ \cup {Write(by, to)}]
Returns(h, object) == [h EXCEPT !.returned = Append(@, object)]

\* SortReceiver without the copy: sort is called on the argument itself.
SortReceiver_NoCopy(cashFlowsArray, call) == cashFlowsArray

\* part_002 line 14: the array that sort is called on, [...cashFlows], a copy.
SortReceiver(cashFlowsArray, call) == Allocated("calculateXIRR", "sorted", call)

\* part_001 lines 76-97 and 117-118: deriveCashFlows allocates an array, pushes
\* the flows to it and returns it; calculateXIRR, unless it returns at once,
\* sorts.
CashFlowsHeap(h, flows, call) ==
  LET array == Allocated("deriveCashFlows", "cashFlows", call)
      pushed == IF flows = <<>> THEN h ELSE Writes(h, "deriveCashFlows", array)
      derived == Returns([pushed EXCEPT !.cashFlows = array], array)
  IN  IF NoRate(flows) THEN derived
      ELSE Writes(derived, "calculateXIRR", SortReceiver(array, call))

\* No array allocated, written or returned yet.
Heap0 == [writes |-> {}, holdings |-> NoObject, cashFlows |-> NoObject, returned |-> <<>>]

Locals0 ==
  /\ pc = "group"
  /\ byIsin = <<>>
  /\ g = 0
  /\ sortedTrades = <<>>
  /\ k = 0
  /\ quantity = 0
  /\ totalCost = RZero
  /\ roundedCost = NumZero
  /\ totalDividendsReceived = 0
  /\ holdings = <<>>
  /\ result = <<>>
  /\ now = FirstCall
  /\ cashFlows = <<>>
  /\ yearFractions = <<>>
  /\ rate = Guess
  /\ iter = 0
  /\ xirr = Null
  /\ returned = <<>>
  /\ heap = Heap0
  /\ localStorage = <<>>
  /\ app = <<>>

\* Any list of up to MaxEvents events of two instruments, with reference data
\* that may be incomplete.
Init ==
  /\ events \in SeqsUpTo(MixedEvents, MaxEvents)
  /\ \E ref \in RefData :
       /\ instruments = ref.instruments
       /\ currentPrices = ref.currentPrices
  /\ Locals0

\* Any list of up to MaxEvents trades and dividends of one instrument.
InitFold ==
  /\ events \in SeqsUpTo(FoldEvents, MaxEvents)
  /\ instruments = <<InstA>>
  /\ currentPrices = [i \in {IsinA} |-> 2]
  /\ Locals0

\* lines 13-23: the grouping loop.
Group ==
  /\ pc = "group"
  /\ byIsin' = GroupEvents(events)
  /\ heap' = [(IF byIsin' = <<>> THEN heap
               ELSE Writes(heap, "deriveHoldings", Allocated("deriveHoldings", "byIsin", 1)))
              EXCEPT !.holdings = Allocated("deriveHoldings", "holdings", 1)]
  /\ pc' = "isin"
  /\ UNCHANGED <<appVars, metricsVars, args, g, sortedTrades, k, quantity, totalCost, roundedCost,
                 totalDividendsReceived, holdings, result>>

\* BeginIsin with the running quantity and cost kept from the entry before.
BeginIsin_KeepsRunningState ==
  /\ pc = "isin"
  /\ g < Len(byIsin)
  /\ g' = g + 1
  /\ sortedTrades' = SortTrades(byIsin[g + 1].trades)
  /\ heap' = Writes(heap, "deriveHoldings", Allocated("deriveHoldings", "sortedTrades", 1))
  /\ k' = 0
  /\ totalDividendsReceived' = 0
  /\ pc' = "fold"
  /\ UNCHANGED <<appVars, metricsVars, args, byIsin, holdings, result, quantity, totalCost, roundedCost>>

\* lines 27-31: the next entry of byIsin; its trades are sorted by date.
BeginIsin ==
  /\ pc = "isin"
  /\ g < Len(byIsin)
  /\ g' = g + 1
  /\ sortedTrades' = SortTrades(byIsin[g + 1].trades)
  /\ heap' = Writes(heap, "deriveHoldings", Allocated("deriveHoldings", "sortedTrades", 1))
  /\ k' = 0
  /\ quantity' = FoldStart.quantity
  /\ totalCost' = FoldStart.totalCost
  /\ roundedCost' = NumZero
  /\ totalDividendsReceived' = 0
  /\ pc' = "fold"
  /\ UNCHANGED <<appVars, metricsVars, args, byIsin, holdings, result>>

\* lines 33-44: one trade of the fold.
FoldTrade ==
  /\ pc = "fold"
  /\ k < Len(sortedTrades)
  /\ LET st == ApplyTrade([quantity |-> quantity, totalCost |-> totalCost],
                          sortedTrades[k + 1])
     IN  /\ quantity' = st.quantity
         /\ totalCost' = st.totalCost
  /\ roundedCost' = ApplyTradeRounded(quantity, roundedCost, sortedTrades[k + 1])
  /\ k' = k + 1
  /\ UNCHANGED <<appVars, metricsVars, args, pc, byIsin, g, sortedTrades, totalDividendsReceived,
                 holdings, result, heap>>

\* lines 46-48: the dividends of the entry are summed.
AddDividends ==
  /\ pc = "fold"
  /\ k = Len(sortedTrades)
  /\ totalDividendsReceived' = SumDividends(byIsin[g].dividends)
  /\ pc' = "emit"
  /\ UNCHANGED <<appVars, metricsVars, args, byIsin, g, sortedTrades, k, quantity, totalCost, roundedCost,
                 holdings, result, heap>>

\* lines 50-69: the holding is pushed, or the entry is dropped.
Emit ==
  /\ pc = "emit"
  /\ LET st == [quantity |-> quantity, totalCost |-> totalCost]
     IN  holdings' =
           IF Emits(st)
           THEN Append(holdings, MakeHolding(byIsin[g].isin, st, roundedCost,
                                             totalDividendsReceived,
                                             instruments, currentPrices))
           ELSE holdings
  /\ heap' = IF holdings' = holdings THEN heap
             ELSE Writes(heap, "deriveHoldings", heap.holdings)
  /\ pc' = "isin"
  /\ UNCHANGED <<appVars, metricsVars, args, byIsin, g, sortedTrades, k, quantity, totalCost, roundedCost,
                 totalDividendsReceived, result>>

\* line 72: holdings is sorted in place and returned.
Return ==
  /\ pc = "isin"
  /\ g = Len(byIsin)
  /\ holdings' = SortHoldings(holdings)
  /\ result' = holdings'
  /\ heap' = Returns(Writes(heap, "deriveHoldings", heap.holdings), heap.holdings)
  /\ pc' = "done"
  /\ UNCHANGED <<appVars, metricsVars, args, byIsin, g, sortedTrades, k, quantity, totalCost, roundedCost,
                 totalDividendsReceived>>

Next == Group \/ BeginIsin \/ FoldTrade \/ AddDividends \/ Emit \/ Return

Spec == Init /\ [][Next]_vars

SpecFold == InitFold /\ [][Next]_vars

(***************************************************************************)
(* derivePortfolioMetrics(events, holdings) called on the events and the   *)
(* holdings derived from them (as updateDerivedData does, part_003 lines   *)
(* 22-25), up to MaxCalls times, while the clock runs up to LastCall.      *)
(***************************************************************************)
\* Events of the account, trades of one instrument and a dividend of another.
MetricsEvents ==
  { Other(CASH_IN, 0, 10),
    Other(CASH_OUT, 0, 2),
    Other(FEE, 4, 1),
    Trade(TRADE_BUY, IsinA, 0, 1, 10, <<>>),
    Trade(TRADE_BUY, IsinA, 4, 2, 16, <<1>>),
    Trade(TRADE_SELL, IsinA, 4, 1, 9, <<1>>),
    Dividend(IsinB, 4, 1) }

\* The end-to-end scenario: a deposit, a buy with a fee and a dividend of one
\* instrument X, on three dates in this order (2019-01-10, 2019-01-15 and
\* 2020-06-01 keep their order in the model's dates).
ScenarioEvents ==
  << Other(CASH_IN, 0, 10000),
     Trade(TRADE_BUY, IsinA, 1, 100, 9500, <<50>>),
     Dividend(IsinA, 2, 300) >>

\* The current price of X in the scenario.
ScenarioPrices == [n \in {IsinA} |-> 120]

\* Any list of up to MaxEvents of MetricsEvents at a price of 11, or the
\* scenario.
InitMetrics ==
  /\ \/ /\ events \in SeqsUpTo(MetricsEvents, MaxEvents)
        /\ currentPrices = [n \in {IsinA} |-> 11]
     \/ /\ events = ScenarioEvents
        /\ currentPrices = ScenarioPrices
  /\ instruments = <<InstA>>
  /\ Locals0

\* lines 100-117 and part_002 lines 7-22: the totals are taken, the cash flows
\* are derived with the terminal flow dated new Date(), and calculateXIRR
\* returns null at once or starts its loop.
BeginMetrics ==
  /\ pc = "done"
  /\ Len(returned) < MaxCalls
  /\ \E flows \in {deriveCashFlows(events, Totals(events, result).currentValue, NewDate(now))} :
         /\ cashFlows' = flows
         /\ heap' = CashFlowsHeap(heap, flows, Len(returned) + 1)
         /\ IF NoRate(flows)
            THEN /\ xirr' = Null
                 /\ pc' = "solved"
                 /\ UNCHANGED <<yearFractions, rate, iter>>
            ELSE /\ yearFractions' = YearFractions(flows)
                 /\ rate' = Guess
                 /\ iter' = 0
                 /\ pc' = "newton"
                 /\ UNCHANGED xirr
  /\ UNCHANGED <<appVars, args, holdingsVars, now, returned>>

\* part_002 lines 24-46: one pass of the loop.
NewtonIteration ==
  /\ pc = "newton"
  /\ iter < MAX_ITERATIONS
  /\ \E it \in {Iteration(yearFractions, rate)} :
       IF it.returns
       THEN /\ xirr' = <<it.rate>>
            /\ pc' = "solved"
            /\ UNCHANGED <<rate, iter>>
       ELSE /\ rate' = it.rate
            /\ iter' = iter + 1
            /\ UNCHANGED <<xirr, pc>>
  /\ UNCHANGED <<appVars, args, holdingsVars, now, cashFlows, yearFractions, returned, heap>>

\* GiveUp with the last rate returned.
GiveUp_ReturnsLastRate ==
  /\ pc = "newton"
  /\ iter >= MAX_ITERATIONS
  /\ xirr' = <<rate>>
  /\ pc' = "solved"
  /\ UNCHANGED <<appVars, args, holdingsVars, now, cashFlows, yearFractions, rate, iter, returned, heap>>

\* part_002 line 48: the loop has run MAX_ITERATIONS times.
GiveUp ==
  /\ pc = "newton"
  /\ iter >= MAX_ITERATIONS
  /\ xirr' = Null
  /\ pc' = "solved"
  /\ UNCHANGED <<appVars, args, holdingsVars, now, cashFlows, yearFractions, rate, iter, returned, heap>>

\* part_001 lines 120-129: the metrics are returned.
ReturnMetrics ==
  /\ pc = "solved"
  /\ returned' = Append(returned, PortfolioMetrics(Totals(events, result), xirr))
  /\ heap' = Returns(heap, Allocated("derivePortfolioMetrics", "metrics", Len(returned) + 1))
  /\ pc' = "done"
  /\ UNCHANGED <<appVars, args, holdingsVars, now, cashFlows, yearFractions, rate, iter, xirr>>

\* Time passes between two calls.
Tick ==
  /\ pc = "done"
  /\ now < LastCall
  /\ now' = now + 1
  /\ UNCHANGED <<appVars, args, pc, holdingsVars, cashFlows, yearFractions, rate, iter, xirr, returned,
                 heap>>

NextMetrics == Next \/ BeginMetrics \/ NewtonIteration \/ GiveUp \/ ReturnMetrics \/ Tick

SpecMetrics == InitMetrics /\ [][NextMetrics]_vars

(***************************************************************************)
(* calculateXIRR(cashFlows) called on a list of up to MaxFlows cash flows, *)
(* with the default guess.                                                 *)
(***************************************************************************)
CashFlow(date, amount) == [date |-> date, amount |-> amount]

\* Flows on day 0, day 365, and one and seven years of 365.25 days after day 0.
SolverFlows ==
  { CashFlow(0, -1000), CashFlow(4 * 365, 1100), CashFlow(NewDate(1), 1100),
    CashFlow(0, -1), CashFlow(0, 2), CashFlow(NewDate(7), 1), CashFlow(0, 0), CashFlow(4 * 365, 2) }

InitXIRR ==
  /\ cashFlows \in SeqsUpTo(SolverFlows, MaxFlows)
  /\ pc = "xirr"
  /\ events = <<>>
  /\ instruments = <<>>
  /\ currentPrices = NoPrices
  /\ byIsin = <<>>
  /\ g = 0
  /\ sortedTrades = <<>>
  /\ k = 0
  /\ quantity = 0
  /\ totalCost = RZero
  /\ roundedCost = NumZero
  /\ totalDividendsReceived = 0
  /\ holdings = <<>>
  /\ result = <<>>
  /\ now = FirstCall
  /\ yearFractions = <<>>
  /\ rate = Guess
  /\ iter = 0
  /\ xirr = Null
  /\ returned = <<>>
  /\ heap = [Heap0 EXCEPT !.cashFlows = Argument("cashFlows")]
  /\ localStorage = <<>>
  /\ app = <<>>

\* part_002 lines 7-22: null is returned at once, or the flows are sorted on a
\* copy, the year fractions taken and the loop begun.
BeginXIRR ==
  /\ pc = "xirr"
  /\ IF NoRate(cashFlows)
     THEN /\ xirr' = Null
          /\ pc' = "solved"
          /\ UNCHANGED <<yearFractions, rate, iter, heap>>
     ELSE /\ yearFractions' = YearFractions(cashFlows)
          /\ heap' = Writes(heap, "calculateXIRR", SortReceiver(heap.cashFlows, 1))
          /\ rate' = Guess
          /\ iter' = 0
          /\ pc' = "newton"
          /\ UNCHANGED xirr
  /\ UNCHANGED <<appVars, args, holdingsVars, now, cashFlows, returned>>

NextXIRR == BeginXIRR \/ NewtonIteration \/ GiveUp

SpecXIRR == InitXIRR /\ [][NextXIRR]_vars

(***************************************************************************)
(* LedgerStorage, src/src/api-v2.ts lines 421-480: the ledger is kept as   *)
(* JSON text in the browser's localStorage under STORAGE_KEY.              *)
(***************************************************************************)
MaxStored == 3
MaxImport == 2
MaxWarnings == 1
LEDGER_VERSION == 2

\* JSON.stringify of an array of objects of numbers and strings: of each
\* object its members, those that are undefined left out (optional names the
\* members the type lets be undefined; undefined is <<>> here, as null is).
JSONStringify(array, optional) ==
  [n \in 1..Len(array) |->
     [key \in { member \in DOMAIN array[n] :
                  member \in optional => array[n][member] # Null } |-> array[n][key]]]

\* JSON.parse of such a text, read at the members of the type.
JSONParse(json, members) ==
  [n \in 1..Len(json) |->
     [key \in members |-> IF key \in DOMAIN json[n] THEN json[n][key] ELSE Null]]

\* ledger.ts lines 17-26, at a given time of the clock.
createEmptyLedger(clock) ==
  [version |-> LEDGER_VERSION, accounts |-> <<>>, instruments |-> <<>>, events |-> <<>>,
   warnings |-> <<>>, lastModified |-> clock]

\* lines 422-425: the item that saveLedger(state) sets.  isin is no member of
\* a FeeEvent or CashEvent, and the fee of a trade is optional.
saveLedger(state, clock) ==
  << [version |-> state.version,
      accounts |-> JSONStringify(state.accounts, {}),
      instruments |-> JSONStringify(state.instruments, {}),
      events |-> JSONStringify(state.events, {"isin", "fee"}),
      warnings |-> JSONStringify(state.warnings, {}),
      lastModified |-> clock] >>

\* lines 427-431: null, or the LedgerState parsed from the item.
loadLedger(item) ==
  IF item = Null THEN Null
  ELSE << [version |-> item[1].version,
           accounts |-> JSONParse(item[1].accounts, {"id", "name", "createdAt"}),
           instruments |-> JSONParse(item[1].instruments, {"isin", "ticker", "name"}),
           events |-> JSONParse(item[1].events,
                               {"type", "isin", "date", "quantity", "amount", "fee"}),
           warnings |-> JSONParse(item[1].warnings, {"id", "severity", "message"}),
           lastModified |-> item[1].lastModified] >>

\* lines 433-447: the item the call leaves stored, and the ledger it returns.
initializeLedger(item, clock) ==
  IF loadLedger(item) # Null THEN [item |-> item, ledger |-> loadLedger(item)[1]]
  ELSE LET ledger == [createEmptyLedger(clock) EXCEPT
                        !.accounts = Append(@, [id |-> "default", name |-> "Hovedkonto",
                                                createdAt |-> clock])]
       IN  [item |-> saveLedger(ledger, clock), ledger |-> ledger]

\* lines 449-451.
clearLedger(item) == Null

\* addEvents with the stored events replaced by the new ones.
addEvents_Replaces(item, added, clock) ==
  LET ledger == [initializeLedger(item, clock).ledger EXCEPT !.events = added]
  IN  [item |-> saveLedger(ledger, clock), ledger |-> ledger]

\* lines 453-458.  this.loadLedger() || this.initializeLedger() is what
\* initializeLedger returns: the ledger loaded, when there is one.
addEvents(item, added, clock) ==
  LET ledger == [initializeLedger(item, clock).ledger EXCEPT !.events = @ \o added]
  IN  [item |-> saveLedger(ledger, clock), ledger |-> ledger]

\* lines 460-467; index is 0 for the code's -1.
upsertInstrument(item, instrument, clock) ==
  LET before == initializeLedger(item, clock).ledger
      found == { n \in 1..Len(before.instruments) :
                   before.instruments[n].isin = instrument.isin }
      index == IF found # {} THEN CHOOSE n \in found : \A i \in found : n <= i ELSE 0
      ledger == IF index > 0 THEN [before EXCEPT !.instruments[index] = instrument]
                ELSE [before EXCEPT !.instruments = Append(@, instrument)]
  IN  [item |-> saveLedger(ledger, clock), ledger |-> ledger]

\* lines 469-474.
addWarning(item, warning, clock) ==
  LET ledger == [initializeLedger(item, clock).ledger EXCEPT !.warnings = Append(@, warning)]
  IN  [item |-> saveLedger(ledger, clock), ledger |-> ledger]

(***************************************************************************)
(* Calls of addEvents, upsertInstrument and addWarning, in any order, on   *)
(* an initialized ledger.  events is the argument of the last addEvents;   *)
(* pc names the last call.                                                 *)
(***************************************************************************)
\* The browser holds a ledger that initializeLedger stored.
InitLedger ==
  /\ localStorage = initializeLedger(Null, FirstCall).item
  /\ app = Null
  /\ pc = "ledger"
  /\ events = <<>>
  /\ instruments = <<>>
  /\ currentPrices = NoPrices
  /\ byIsin = <<>>
  /\ g = 0
  /\ sortedTrades = <<>>
  /\ k = 0
  /\ quantity = 0
  /\ totalCost = RZero
  /\ roundedCost = NumZero
  /\ totalDividendsReceived = 0
  /\ holdings = <<>>
  /\ result = <<>>
  /\ now = FirstCall
  /\ cashFlows = <<>>
  /\ yearFractions = <<>>
  /\ rate = Guess
  /\ iter = 0
  /\ xirr = Null
  /\ returned = <<>>
  /\ heap = Heap0

\* A call of LedgerStorage.addEvents, at some time not before the last call,
\* with a deposit, a buy with a fee or a dividend, or two of them.
AddEvents ==
  /\ \E list \in SeqsUpTo({ Other(CASH_IN, 0, 10),
                             Trade(TRADE_BUY, IsinA, 0, 2, 6, <<1>>),
                             Dividend(IsinA, 4, 1) }, MaxImport),
        clock \in now..LastCall :
       /\ Len(localStorage[1].events) + Len(list) <= MaxStored
       /\ events' = list
       /\ now' = clock
       /\ localStorage' = addEvents(localStorage, list, clock).item
  /\ pc' = "addEvents"
  /\ UNCHANGED <<app, instruments, currentPrices, holdingsVars, cashFlows, yearFractions, rate,
                 iter, xirr, returned, heap>>

\* A call of LedgerStorage.upsertInstrument, with one of two records of one
\* ISIN or the record of another.
UpsertInstrument ==
  /\ \E instrument \in {InstA, [InstA EXCEPT !.name = "Equinor ASA"], InstB},
        clock \in now..LastCall :
       /\ now' = clock
       /\ localStorage' = upsertInstrument(localStorage, instrument, clock).item
  /\ pc' = "upsertInstrument"
  /\ UNCHANGED <<app, args, holdingsVars, cashFlows, yearFractions, rate, iter, xirr, returned,
                 heap>>

\* A call of LedgerStorage.addWarning, with a DataQualityWarning (part_005
\* lines 3-9).
AddWarning ==
  /\ \E warning \in { [id |-> "w1", severity |-> "WARNING", message |-> "fee missing"],
                       [id |-> "w2", severity |-> "INFO", message |-> "no isin"] },
        clock \in now..LastCall :
       /\ Len(localStorage[1].warnings) < MaxWarnings
       /\ now' = clock
       /\ localStorage' = addWarning(localStorage, warning, clock).item
  /\ pc' = "addWarning"
  /\ UNCHANGED <<app, args, holdingsVars, cashFlows, yearFractions, rate, iter, xirr, returned,
                 heap>>

NextLedger == AddEvents \/ UpsertInstrument \/ AddWarning

SpecLedger == InitLedger /\ [][NextLedger]_vars

(***************************************************************************)
(* TallyApp, part_003.  app is null until the page has loaded, and then    *)
(* holds the fields of the TallyApp and whether the confirm-import button  *)
(* of the page is enabled.                                                 *)
(***************************************************************************)
\* currentPrices with a quote in it.
InitialPrices_Quoted == [n \in {IsinA} |-> 11]

\* line 12: private currentPrices: Map<string, number> = new Map().
InitialPrices == NoPrices

\* lines 22-25: this.holdings and this.metrics are set, on the fields this
\* of the TallyApp; cashFlows and xirr are those of derivePortfolioMetrics
\* (part_001 lines 117-118), whose terminal flow is dated by the clock.
updateDerivedData(this, clock) ==
  \E derived \in {deriveHoldings(this.ledger.events, this.ledger.instruments,
                                  this.currentPrices)} :
  \E totals \in {Totals(this.ledger.events, derived)} :
  \E flows \in {deriveCashFlows(this.ledger.events, totals.currentValue, NewDate(clock))} :
  \E solved \in {calculateXIRR(flows)} :
    /\ app' = << [this EXCEPT !.holdings = derived,
                               !.metrics = <<PortfolioMetrics(totals, solved)>>] >>
    /\ cashFlows' = flows
    /\ xirr' = solved

\* lines 126-127: the item after the calls of upsertInstrument, and of
\* addWarning, for the elements of a list in order.
RECURSIVE UpsertAll(_, _, _)
UpsertAll(item, list, clock) ==
  IF list = <<>> THEN item
  ELSE upsertInstrument(UpsertAll(item, SubSeq(list, 1, Len(list) - 1), clock),
                        list[Len(list)], clock).item
RECURSIVE WarnAll(_, _, _)
WarnAll(item, list, clock) ==
  IF list = <<>> THEN item
  ELSE addWarning(WarnAll(item, SubSeq(list, 1, Len(list) - 1), clock),
                  list[Len(list)], clock).item

\* csv-parser.ts lines 4-10: results of parseCSV, one of them without events.
ParseResults ==
  { [events |-> <<>>, instruments |-> <<>>,
     warnings |-> <<[id |-> "w1", severity |-> "WARNING", message |-> "fee missing"]>>],
    [events |-> <<Trade(TRADE_BUY, IsinA, 0, 2, 6, <<1>>)>>, instruments |-> <<InstA>>,
     warnings |-> <<>>],
    [events |-> <<Other(CASH_IN, 0, 10), Dividend(IsinA, 4, 1)>>,
     instruments |-> <<[InstA EXCEPT !.name = "Equinor ASA"]>>,
     warnings |-> <<[id |-> "w2", severity |-> "INFO", message |-> "no isin"]>>],
    [events |-> <<Trade(TRADE_BUY, IsinB, 0, 13, 57, <<>>),
                  Trade(TRADE_SELL, IsinA, 4, 1, 4, <<>>)>>,
     instruments |-> <<InstB, InstA>>, warnings |-> <<>>] }

\* The page is opened in a browser that has stored no ledger, or one that a
\* session before stored with a buy in it.
InitApp ==
  /\ localStorage \in
       { Null,
         addEvents(upsertInstrument(Null, InstA, FirstCall).item,
                   <<Trade(TRADE_BUY, IsinA, 0, 1, 10, <<>>)>>, FirstCall).item }
  /\ app = Null
  /\ pc = "page"
  /\ events = <<>>
  /\ instruments = <<>>
  /\ currentPrices = NoPrices
  /\ byIsin = <<>>
  /\ g = 0
  /\ sortedTrades = <<>>
  /\ k = 0
  /\ quantity = 0
  /\ totalCost = RZero
  /\ roundedCost = NumZero
  /\ totalDividendsReceived = 0
  /\ holdings = <<>>
  /\ result = <<>>
  /\ now = FirstCall
  /\ cashFlows = <<>>
  /\ yearFractions = <<>>
  /\ rate = Guess
  /\ iter = 0
  /\ xirr = Null
  /\ returned = <<>>
  /\ heap = Heap0

\* lines 15-20 (DOMContentLoaded, line 157): new TallyApp(), with the fields
\* as lines 10-13 initialize them.
Construct ==
  /\ app = Null
  /\ \E clock \in now..LastCall :
     \E initialized \in {initializeLedger(localStorage, clock)} :
       /\ now' = clock
       /\ localStorage' = initialized.item
       /\ updateDerivedData([ledger |-> initialized.ledger,
                             holdings |-> <<>>,
                             metrics |-> Null,
                             currentPrices |-> InitialPrices,
                             pendingImport |-> Null,
                             confirmEnabled |-> FALSE], clock)
  /\ pc' = "constructed"
  /\ UNCHANGED <<args, holdingsVars, yearFractions, rate, iter, returned, heap>>

\* lines 107-122: a file that validateCSV accepts is chosen; the button is
\* enabled when the result has events.
HandleFileSelect ==
  /\ app # Null
  /\ \E parsed \in ParseResults :
       app' = << [app[1] EXCEPT !.pendingImport = <<parsed>>,
                             !.confirmEnabled = parsed.events # <<>>] >>
  /\ pc' = "fileSelected"
  /\ UNCHANGED <<localStorage, args, holdingsVars, metricsVars, heap>>

\* lines 124-134: the confirm-import button is clicked.  hideModal and render
\* leave the button disabled.
ConfirmImport ==
  /\ app # Null
  /\ app[1].confirmEnabled
  /\ app[1].pendingImport # Null
  /\ Len(localStorage[1].events) + Len(app[1].pendingImport[1].events) <= MaxStored
  /\ \E clock \in now..LastCall :
     \E added \in {addEvents(localStorage, app[1].pendingImport[1].events, clock).item} :
     \E upserted \in {UpsertAll(added, app[1].pendingImport[1].instruments, clock)} :
     \E warned \in {WarnAll(upserted, app[1].pendingImport[1].warnings, clock)} :
     \E loaded \in {loadLedger(warned)} :
       /\ now' = clock
       /\ localStorage' = warned
       /\ updateDerivedData([app[1] EXCEPT
                               !.ledger = IF loaded # Null THEN loaded[1] ELSE @,
                               !.confirmEnabled = FALSE], clock)
  /\ pc' = "imported"
  /\ UNCHANGED <<args, holdingsVars, yearFractions, rate, iter, returned, heap>>

\* lines 145-154: the clear-data button, which the page has when the ledger
\* has events (line 73), is clicked and confirm() answers true.
ClearAllData ==
  /\ app # Null
  /\ app[1].ledger.events # <<>>
  /\ \E clock \in now..LastCall :
     \E initialized \in {initializeLedger(clearLedger(localStorage), clock)} :
       /\ now' = clock
       /\ localStorage' = initialized.item
       /\ app' = << [app[1] EXCEPT !.ledger = initialized.ledger,
                                    !.holdings = <<>>,
                                    !.metrics = Null,
                                    !.confirmEnabled = FALSE] >>
  /\ pc' = "cleared"
  /\ UNCHANGED <<args, holdingsVars, cashFlows, yearFractions, rate, iter, xirr, returned,
                 heap>>

NextApp == Construct \/ HandleFileSelect \/ ConfirmImport \/ ClearAllData

SpecApp == InitApp /\ [][NextApp]_vars

\* The steps compose to the function.
StepsAgree == pc = "done" => result = deriveHoldings(events, instruments, currentPrices)

(***************************************************************************)
(* What the properties speak of, stated without the code's operators.      *)
(***************************************************************************)
IsBuy(e) == e.type = TRADE_BUY
IsSell(e) == e.type = TRADE_SELL
IsTrade(e) == IsBuy(e) \/ IsSell(e)

\* The trades, and the dividends, of an isin in the order of a list.
TradesIn(list, isin) == SelectSeq(list, LAMBDA e : IsTrade(e) /\ e.isin = isin)
DividendsIn(list, isin) == SelectSeq(list, LAMBDA e : e.type = DIVIDEND /\ e.isin = isin)

\* Buy quantities minus sell quantities of the first n trades of a list.
RECURSIVE NetQuantity(_, _)
NetQuantity(trades, n) ==
  IF n = 0 THEN 0
  ELSE NetQuantity(trades, n - 1)
       + (IF IsBuy(trades[n]) THEN trades[n].quantity ELSE -trades[n].quantity)

RECURSIVE AmountSum(_)
AmountSum(list) == IF list = <<>> THEN 0 ELSE list[1].amount + AmountSum(Tail(list))

\* The isin the loop of line 27 is at, and the trade the fold has just done.
CurrentIsin == byIsin[g].isin
LastTrade == sortedTrades[k]
Folding == pc = "fold" /\ k > 0

\* A step of the fold and the trade it applies.
FoldStep == pc = "fold" /\ k' = k + 1
StepTrade == sortedTrades[k + 1]

\* The step that pushes a holding.
PushStep == pc = "emit" /\ Len(holdings') = Len(holdings) + 1
Pushed == holdings'[Len(holdings')]

\* C1 as stated: the running quantity after each trade is the sum of the buy
\* quantities minus the sum of the sell quantities processed so far.
C1_RunningNetQuantity ==
  pc = "fold" => quantity = NetQuantity(sortedTrades, k)

\* C1 as amended: a sell is applied only at a strictly positive running
\* quantity and is otherwise skipped; an applied sell is not checked against the
\* quantity held, so the running quantity may go negative; a buy always adds its
\* quantity; the quantity of an emitted Holding is the running quantity after
\* the last trade of the isin.
C1_SellGuardedByPositiveQuantity ==
  [][ /\ FoldStep =>
           quantity' = IF IsBuy(StepTrade) THEN quantity + StepTrade.quantity
                       ELSE IF quantity > 0 THEN quantity - StepTrade.quantity
                       ELSE quantity
      /\ PushStep => Pushed.quantity = quantity /\ k = Len(sortedTrades)
    ]_vars

\* C1 witness: a sell met at quantity 0 was skipped, a later sell took the
\* quantity below zero, and the running quantity is not the net quantity.
C1_Witness ==
  /\ Folding
  /\ IsSell(sortedTrades[1])
  /\ quantity < 0
  /\ quantity # NetQuantity(sortedTrades, k)

\* The quantity the fold ends with for an isin of the event list.
FoldedQuantity(isin) == FoldTrades(SortTrades(TradesIn(events, isin))).quantity
HasHolding(list, isin) == \E i \in 1..Len(list) : list[i].isin = isin

C3_BuyAddsAmountPlusFee ==
  [][ (FoldStep /\ IsBuy(StepTrade)) =>
        /\ quantity' = quantity + StepTrade.quantity
        /\ totalCost' = RAdd(totalCost,
                             RInt(StepTrade.amount
                                  + (IF StepTrade.fee = <<>> THEN 0 ELSE StepTrade.fee[1])))
    ]_vars

\* C3 witness: a buy with a fee has been applied on top of a running state that
\* an earlier over-sell left negative.
C3_Witness ==
  /\ Folding
  /\ k = 3
  /\ IsBuy(LastTrade) /\ LastTrade.fee # <<>>
  /\ IsSell(sortedTrades[2])
  /\ quantity - LastTrade.quantity < 0

RECURSIVE ByDate(_, _)
ByDate(trades, dates) ==
  IF dates = {} THEN <<>>
  ELSE LET d == CHOOSE x \in dates : \A y \in dates : x <= y
       IN  SelectSeq(trades, LAMBDA e : e.date = d) \o ByDate(trades, dates \ {d})

\* C5: the trades of each isin are folded in ascending date order whatever the
\* order of the event list, and trades of one date in the order of the list.
C5_TradesInDateOrderStable ==
  pc \in {"fold", "emit"} =>
    sortedTrades = ByDate(TradesIn(events, CurrentIsin), Dates)

\* C5 witness: the list held a later trade before an earlier one and two
\* different trades of one date; the fold has come to the last of them.
C5_Witness ==
  /\ Folding
  /\ k = Len(sortedTrades)
  /\ sortedTrades # TradesIn(events, CurrentIsin)
  /\ \E i \in 1..Len(sortedTrades) - 1 :
       /\ sortedTrades[i].date = sortedTrades[i + 1].date
       /\ sortedTrades[i] # sortedTrades[i + 1]

\* The orderings of a list.
Orderings(list) ==
  LET n == Len(list)
      perms == { f \in [1..n -> 1..n] : \A i, j \in 1..n : f[i] = f[j] => i = j }
  IN  { [i \in 1..n |-> list[f[i]]] : f \in perms }

\* The isins of a list in the order in which a trade or dividend first names them.
RECURSIVE FirstSeen(_)
FirstSeen(list) ==
  IF list = <<>> THEN <<>>
  ELSE LET before == FirstSeen(SubSeq(list, 1, Len(list) - 1))
           e == list[Len(list)]
       IN  IF (IsTrade(e) \/ e.type = DIVIDEND)
              /\ ~\E i \in 1..Len(before) : before[i] = e.isin
           THEN Append(before, e.isin) ELSE before

\* An ordering that keeps, for every isin, the order of its trades of one date.
KeepsSameDateTrades(list, other) ==
  \A isin \in Isins, d \in Dates :
    SelectSeq(TradesIn(other, isin), LAMBDA e : e.date = d)
      = SelectSeq(TradesIn(list, isin), LAMBDA e : e.date = d)

C8_SortedByMarketValueDescending ==
  pc = "done" =>
    \A i \in 1..Len(result) - 1 : result[i].marketValue >= result[i + 1].marketValue

\* C8 witness: two holdings are returned, the larger first, and the larger is
\* of the isin that was pushed second.
C8_Witness ==
  /\ pc = "done"
  /\ Len(result) = 2
  /\ result[1].marketValue > result[2].marketValue
  /\ result[1].isin = byIsin[2].isin

\* C9: totalDividendsReceived of a returned Holding is the sum of the amounts of
\* all DIVIDEND events of its isin in the event list.
C9_DividendsSummedPerIsin ==
  pc = "done" =>
    \A i \in 1..Len(result) :
      result[i].totalDividendsReceived = AmountSum(DividendsIn(events, result[i].isin))

\* C9 witness: a returned Holding has dividends; one of them comes before the
\* first trade of the isin in the list, and the isin has a sell.
C9_Witness ==
  /\ pc = "done"
  /\ \E i \in 1..Len(result) :
       /\ result[i].totalDividendsReceived > 0
       /\ \E a, b, c \in 1..Len(events) :
            /\ a < b /\ a < c
            /\ events[a].type = DIVIDEND /\ events[a].isin = result[i].isin
            /\ IsBuy(events[b]) /\ events[b].isin = result[i].isin
            /\ IsSell(events[c]) /\ events[c].isin = result[i].isin
            /\ \A j \in 1..a : ~IsTrade(events[j])

HasInstrument(isin) == \E i \in 1..Len(instruments) : instruments[i].isin = isin
HasPrice(isin) == isin \in DOMAIN currentPrices

\* C10: a positive-quantity isin is returned whatever reference data is missing;
\* without a price its currentPrice and marketValue are 0 and its unrealizedGain
\* is -costBasis; without an instrument its ticker is the first 6 characters of
\* the isin and its name the placeholder.
C10_MissingReferenceData ==
  pc = "done" =>
    /\ \A isin \in Isins : FoldedQuantity(isin) > 0 => HasHolding(result, isin)
    /\ \A i \in 1..Len(result) :
         LET h == result[i]
         IN  /\ ~HasPrice(h.isin) =>
                  /\ h.currentPrice = 0
                  /\ h.marketValue = 0
                  /\ h.unrealizedGain = RSub(RZero, h.costBasis)
             /\ ~HasInstrument(h.isin) =>
                  /\ h.ticker = [j \in 1..6 |-> h.isin[j]]
                  /\ h.name = "Ukjent"

\* C10 witness: a Holding is returned for an isin with neither price nor
\* instrument, next to one that has both.
C10_Witness ==
  /\ pc = "done"
  /\ \E i, j \in 1..Len(result) :
       /\ ~HasPrice(result[i].isin) /\ ~HasInstrument(result[i].isin)
       /\ result[i].costBasis # RZero
       /\ HasPrice(result[j].isin) /\ HasInstrument(result[j].isin)

\* C7: two calls of derivePortfolioMetrics with equal events and equal holdings
\* return equal PortfolioMetrics, xirr and xirrPercent included, whatever
\* happens between the calls.
C7_MetricsSameOnEveryCall ==
  \A a, b \in 1..Len(returned) : returned[a] = returned[b]

(***************************************************************************)
(* The fields of an emitted Holding.                                       *)
(***************************************************************************)
\* C11 as stated: every pushed Holding has marketValue = quantity * currentPrice,
\* unrealizedGain = marketValue - costBasis and averageCostPerShare * quantity
\* = costBasis, costBasis being the running cost of the fold; the fields are
\* the floating-point numbers the code computes.
C11_ProductGivesCostBasis ==
  [][ PushStep =>
        /\ Pushed.rounded.costBasis = roundedCost
        /\ Pushed.rounded.marketValue = Num(Pushed.quantity * Pushed.currentPrice)
        /\ Pushed.rounded.unrealizedGain
             = NumSub(Pushed.rounded.marketValue, Pushed.rounded.costBasis)
        /\ NumMul(Pushed.rounded.averageCostPerShare, Num(Pushed.quantity))
             = Pushed.rounded.costBasis
    ]_vars

\* C11: every pushed Holding has marketValue = quantity * currentPrice,
\* unrealizedGain = marketValue - costBasis and averageCostPerShare = costBasis /
\* quantity, each the floating-point result of that one operation on the
\* running cost of the fold; averageCostPerShare * quantity = costBasis holds
\* of the real numbers the fields stand for, and of the floating-point fields
\* up to the rounding of the quotient.
C11_FieldsOfEmittedHolding ==
  [][ PushStep =>
        /\ Pushed.quantity = quantity
        /\ Pushed.costBasis = totalCost
        /\ Pushed.marketValue = Pushed.quantity * Pushed.currentPrice
        /\ Pushed.unrealizedGain = RSub(RInt(Pushed.marketValue), Pushed.costBasis)
        /\ RMul(Pushed.averageCostPerShare, RInt(Pushed.quantity)) = Pushed.costBasis
        /\ Pushed.rounded.costBasis = roundedCost
        /\ Pushed.rounded.marketValue = Num(Pushed.quantity * Pushed.currentPrice)
        /\ Pushed.rounded.unrealizedGain
             = NumSub(Pushed.rounded.marketValue, Pushed.rounded.costBasis)
        /\ Pushed.rounded.averageCostPerShare
             = NumDiv(Pushed.rounded.costBasis, Num(Pushed.quantity))
        /\ NumLess(NumAbs(NumSub(NumMul(Pushed.rounded.averageCostPerShare,
                                        Num(Pushed.quantity)),
                                 Pushed.rounded.costBasis)),
                   NumMul(Pushed.rounded.costBasis, Dec(1, -10)))
    ]_vars

\* C11 witness: a holding of 13 shares bought for 57 has been pushed at a price
\* above 0; its average cost times 13 is not 57.
C11_Witness ==
  /\ holdings # <<>>
  /\ \E n \in 1..Len(holdings) :
       /\ holdings[n].quantity = 13
       /\ holdings[n].rounded.costBasis = Num(57)
       /\ holdings[n].currentPrice > 0
       /\ holdings[n].unrealizedGain = RInt(13 * holdings[n].currentPrice - 57)
       /\ NumMul(holdings[n].rounded.averageCostPerShare, Num(13)) # Num(57)

(***************************************************************************)
(* Cash flows and portfolio metrics.                                       *)
(***************************************************************************)
\* derivePortfolioMetrics has derived its cash flows: it is in the solver, or
\* about to return; and the step by which it returns.
FlowsDerived == pc \in {"newton", "solved"}
ReturnStep == pc = "solved" /\ Len(returned') = Len(returned) + 1
Returned == returned'[Len(returned')]

\* The amount of the flow of an event.
FlowAmount(e) ==
  CASE e.type = CASH_IN    -> -e.amount
    [] e.type = CASH_OUT   -> e.amount
    [] e.type = TRADE_BUY  -> -(e.amount + (IF e.fee = <<>> THEN 0 ELSE e.fee[1]))
    [] e.type = TRADE_SELL -> e.amount
    [] e.type = DIVIDEND   -> e.amount
    [] e.type = FEE        -> -e.amount

\* The sum of the amounts of the events of a list that have one of the types.
AmountOf(list, types) == AmountSum(SelectSeq(list, LAMBDA e : e.type \in types))

RECURSIVE TradeFees(_)
TradeFees(list) ==
  IF list = <<>> THEN 0
  ELSE (IF IsTrade(list[1]) /\ list[1].fee # <<>> THEN list[1].fee[1] ELSE 0)
       + TradeFees(Tail(list))

RECURSIVE MarketValueOf(_)
MarketValueOf(list) ==
  IF list = <<>> THEN 0 ELSE list[1].marketValue + MarketValueOf(Tail(list))

\* C12: deriveCashFlows gives one flow for every event, in the order of the
\* events, dated as the event, of amount -amount for CASH_IN, +amount for
\* CASH_OUT, -(amount + fee) for TRADE_BUY, +amount for TRADE_SELL, +amount for
\* DIVIDEND and -amount for FEE; no other sign comes out.
C12_OneSignedFlowPerEvent ==
  FlowsDerived =>
    /\ Len(cashFlows) >= Len(events)
    /\ \A n \in 1..Len(events) :
         /\ cashFlows[n] = [date |-> NewDate(events[n].date), amount |-> FlowAmount(events[n])]
         /\ events[n].type \in {CASH_IN, TRADE_BUY, FEE} => cashFlows[n].amount <= 0
         /\ events[n].type \in {CASH_OUT, TRADE_SELL, DIVIDEND} => cashFlows[n].amount >= 0

\* C12 witness: flows have been derived for a buy with a fee, a sell with a fee
\* and a cash event, the sell not the last of them.
C12_Witness ==
  /\ FlowsDerived
  /\ Len(events) = 3
  /\ IsSell(events[1]) /\ events[1].fee # <<>> /\ cashFlows[1].amount = events[1].amount
  /\ \E n \in 2..3 : IsBuy(events[n]) /\ events[n].fee # <<>>
                     /\ cashFlows[n].amount = -(events[n].amount + events[n].fee[1])
  /\ \E n \in 2..3 : events[n].type \in {CASH_IN, CASH_OUT}

\* C13: deriveCashFlows ends its result with one more flow, dated terminalDate
\* and of amount terminalValue, exactly when terminalValue > 0; the value
\* derivePortfolioMetrics hands it is the market value of the holdings, so
\* holdings worth 0 give the solver no terminal flow.
C13_TerminalFlowIffPositiveValue ==
  FlowsDerived =>
    IF MarketValueOf(result) > 0
    THEN /\ Len(cashFlows) = Len(events) + 1
         /\ cashFlows[Len(cashFlows)] = [date |-> NewDate(now), amount |-> MarketValueOf(result)]
    ELSE Len(cashFlows) = Len(events)

\* C13 witness: flows have been derived for a position bought and sold, no
\* holding is left, and the flows are those of the events alone.
C13_Witness ==
  /\ FlowsDerived
  /\ \E n \in 1..Len(events) : IsBuy(events[n])
  /\ result = <<>>
  /\ MarketValueOf(result) = 0
  /\ Len(cashFlows) = Len(events)
  /\ Len(cashFlows) >= 2

\* C14: the metrics returned hold the sum of the CASH_IN amounts, of the
\* CASH_OUT amounts, of the DIVIDEND amounts, of the FEE amounts and trade fees,
\* the difference of the first two, and the market value of the holdings, over
\* all the events whatever their isin and order.
C14_TotalsOverAllEvents ==
  [][ ReturnStep =>
        /\ Returned.totalInvested = AmountOf(events, {CASH_IN})
        /\ Returned.totalWithdrawn = AmountOf(events, {CASH_OUT})
        /\ Returned.totalDividends = AmountOf(events, {DIVIDEND})
        /\ Returned.totalFees = AmountOf(events, {FEE}) + TradeFees(events)
        /\ Returned.netCashFlow = AmountOf(events, {CASH_IN}) - AmountOf(events, {CASH_OUT})
        /\ Returned.currentValue = MarketValueOf(result)
    ]_vars

\* C14 witness: metrics have been returned for a FEE event, a trade with a
\* fee and a dividend of another isin than the holding's.
C14_Witness ==
  /\ returned # <<>>
  /\ \E n \in 1..Len(events) : events[n].type = FEE
  /\ \E n \in 1..Len(events) : IsTrade(events[n]) /\ events[n].fee # <<>>
  /\ \E n \in 1..Len(events) : events[n].type = DIVIDEND /\ events[n].isin = IsinB
  /\ returned[1].totalFees = 2
  /\ returned[1].totalDividends = 1
  /\ returned[1].currentValue > 0

\* C18: when the solver returns null the metrics are returned all the same,
\* with xirr and xirrPercent null and the other fields computed; xirrPercent
\* is null exactly when xirr is, and xirr * 100 otherwise.
C18_NullRateStillReturnsMetrics ==
  [][ ReturnStep =>
        /\ Returned.xirr = xirr
        /\ (Returned.xirrPercent = Null) <=> (Returned.xirr = Null)
        /\ Returned.xirr # Null =>
             Returned.xirrPercent = <<NumMul(Returned.xirr[1], Num(100))>>
        /\ Returned.totalInvested = AmountOf(events, {CASH_IN})
        /\ Returned.totalFees = AmountOf(events, {FEE}) + TradeFees(events)
        /\ Returned.currentValue = MarketValueOf(result)
    ]_vars

\* C18 witness: the solver ran out of iterations on flows with both signs, and
\* metrics with null xirr and xirrPercent and fees counted have been returned.
C18_Witness ==
  /\ returned # <<>>
  /\ pc = "done"
  /\ iter = MAX_ITERATIONS
  /\ xirr = Null
  /\ returned[Len(returned)].xirr = Null
  /\ returned[Len(returned)].xirrPercent = Null
  /\ returned[Len(returned)].totalFees > 0

(***************************************************************************)
(* The rate solver.                                                        *)
(***************************************************************************)
\* calculateXIRR has returned; and the step by which the loop goes on.
Solved == pc = "solved"
LoopStep == pc = "newton" /\ pc' = "newton"

\* The flows of a list hold no strictly negative, or no strictly positive, amount.
OneSided(flows) ==
  \/ \A n \in 1..Len(flows) : flows[n].amount >= 0
  \/ \A n \in 1..Len(flows) : flows[n].amount <= 0

\* C15: given fewer than 2 flows, or flows without a strictly negative and a
\* strictly positive amount, the solver returns null without running its loop.
C15_NullWithoutSignChange ==
  (Len(cashFlows) < 2 \/ OneSided(cashFlows)) =>
    /\ pc \in {"xirr", "solved"}
    /\ iter = 0
    /\ pc = "solved" => xirr = Null

\* C15 witness: null has been returned for three flows, one of amount 0 and
\* the others positive.
C15_Witness ==
  /\ Solved
  /\ xirr = Null
  /\ Len(cashFlows) = 3
  /\ \E n \in 1..3 : cashFlows[n].amount = 0
  /\ \E n \in 1..3 : cashFlows[n].amount > 0
  /\ \A n \in 1..3 : cashFlows[n].amount >= 0

\* C16: the solver terminates on every input; it runs its loop at most
\* MAX_ITERATIONS = 100 times, and when none of the passes has returned a rate
\* it returns null.
\* Stated by a variant: the pass counter stays within 0..100, so that one of
\* the loop's two steps applies until the solver has returned; every step of
\* the loop returns or raises the counter by one, and the step at 100 returns
\* null.
C16_SolverTerminates ==
  /\ [](pc \in {"xirr", "newton", "solved"} /\ iter \in 0..MAX_ITERATIONS)
  /\ [][ pc = "xirr" => pc' \in {"newton", "solved"} ]_vars
  /\ [][ (pc = "newton" /\ iter = MAX_ITERATIONS) => (pc' = "solved" /\ xirr' = Null) ]_vars
  /\ [][ (pc = "newton" /\ iter < MAX_ITERATIONS) =>
           \/ pc' = "newton" /\ iter' = iter + 1
           \/ pc' = "solved" /\ xirr' # Null /\ iter' = iter ]_vars

\* C16 witness: the loop ran 100 times on flows of both signs and null was
\* returned.
C16_Witness ==
  /\ Solved
  /\ iter = MAX_ITERATIONS
  /\ xirr = Null
  /\ \E n \in 1..Len(cashFlows) : cashFlows[n].amount < 0
  /\ \E n \in 1..Len(cashFlows) : cashFlows[n].amount > 0

\* C17 as stated: at the start of every iteration after the first the rate lies
\* in [-0.99, 10], whichever branch produced it.
C17_EveryIterateClamped ==
  (pc = "newton" /\ iter > 0) =>
    /\ ~NumLess(rate, Dec(-99, -2))
    /\ ~NumLess(Num(10), rate)

\* -1000 on day 0 and +1100 on day 365.
KnownRateFlows == <<CashFlow(0, -1000), CashFlow(4 * 365, 1100)>>

WholeYearFlows == <<CashFlow(0, -1000), CashFlow(NewDate(1), 1100)>>

Inputs(by) ==
  CASE by = "deriveHoldings" ->
         {Argument("events"), Argument("instruments"), Argument("currentPrices")}
    [] by = "deriveCashFlows" -> {Argument("events")}
    [] by = "derivePortfolioMetrics" -> {Argument("events"), heap.holdings}
    [] by = "calculateXIRR" -> {heap.cashFlows}
    [] OTHER -> {}

\* A list holds a later date before an earlier one.
OutOfDateOrder(list) ==
  \E i, j \in 1..Len(list) : i < j /\ list[j].date < list[i].date

\* C20: deriveHoldings, deriveCashFlows, derivePortfolioMetrics and the rate
\* solver never mutate their inputs and return freshly allocated output:
\* events, instruments and currentPrices keep their elements in their order
\* through every step; so do the holdings once deriveHoldings has returned them
\* and the cash flows once deriveCashFlows has; no function pushes to, or
\* sorts, an array it was passed; and every array or object returned was
\* allocated by one of the functions and had not been returned before.
C20_InputsKeptOutputsFresh ==
  /\ [][events' = events /\ instruments' = instruments /\ currentPrices' = currentPrices]_vars
  /\ [][(pc \in {"done", "newton", "solved"}) => (result' = result /\ holdings' = holdings)]_vars
  /\ [][(pc \in {"newton", "solved"}) => (cashFlows' = cashFlows)]_vars
  /\ [](\A w \in heap.writes : w.to \notin Inputs(w.by))
  /\ [](\A i \in 1..Len(heap.returned) :
          /\ heap.returned[i].by \in {"deriveHoldings", "deriveCashFlows", "derivePortfolioMetrics"}
          /\ \A j \in 1..Len(heap.returned) : i # j => heap.returned[i] # heap.returned[j])

\* C20 witness: the second call of derivePortfolioMetrics has returned, for
\* events and cash flows that are out of date order, so that both sorts by
\* date had elements to move, and holdings that were pushed.
C20_Witness ==
  /\ pc = "done"
  /\ Len(returned) = 2
  /\ OutOfDateOrder(events)
  /\ OutOfDateOrder(cashFlows)
  /\ result # <<>>
  /\ \E w \in heap.writes : w.by = "calculateXIRR"
  /\ \E w \in heap.writes : w.by = "deriveHoldings" /\ w.to.site = "sortedTrades"

(***************************************************************************)
(* The end-to-end scenario.                                                *)
(***************************************************************************)
Scenario == events = ScenarioEvents /\ currentPrices = ScenarioPrices

\* The amounts of a list of cash flows, in order.
Amounts(flows) == [n \in 1..Len(flows) |-> flows[n].amount]

\* C21: for the scenario deriveHoldings returns one holding, of quantity 100,
\* costBasis 9550, marketValue 12000, unrealizedGain 2450 and
\* totalDividendsReceived 300; the flows given to the solver are -10000,
\* -9550, +300, +12000 in this order; and derivePortfolioMetrics returns
\* totalInvested 10000, totalDividends 300, totalFees 50, currentValue 12000.
C21_EndToEndScenario ==
  Scenario =>
    /\ pc \in {"done", "newton", "solved"} =>
         /\ Len(result) = 1
         /\ result[1].isin = IsinA
         /\ result[1].quantity = 100
         /\ result[1].costBasis = RInt(9550)
         /\ result[1].rounded.costBasis = Num(9550)
         /\ result[1].marketValue = 12000
         /\ result[1].rounded.marketValue = Num(12000)
         /\ result[1].unrealizedGain = RInt(2450)
         /\ result[1].rounded.unrealizedGain = Num(2450)
         /\ result[1].totalDividendsReceived = 300
    /\ FlowsDerived => Amounts(cashFlows) = <<-10000, -9550, 300, 12000>>
    /\ \A n \in 1..Len(returned) :
         /\ returned[n].totalInvested = 10000
         /\ returned[n].totalDividends = 300
         /\ returned[n].totalFees = 50
         /\ returned[n].currentValue = 12000

\* C21 witness: the metrics of the scenario have been returned, the solver
\* having found a rate for its flows.
C21_Witness ==
  /\ Scenario
  /\ pc = "done"
  /\ returned # <<>>
  /\ returned[1].xirr # Null
  /\ Len(cashFlows) = 4

(***************************************************************************)
(* The exits of the solver's loop.                                         *)
(***************************************************************************)
\* npv and derivative of the year fractions at the rate of the state.
SumsAtRate == NpvAndDerivative(yearFractions, rate, Len(yearFractions))

\* line 34 holds of the sums; line 35 holds of them.
NpvConverged(sums) == NumLess(NumAbs(sums.npv), TOLERANCE)
FlatSlope(sums) == NumLess(NumAbs(sums.derivative), TOLERANCE)

\* line 40 for the sums of a pass.
NewRate(sums) == NumSub(rate, NumDiv(sums.npv, sums.derivative))

\* The returned rate is the current one, whose npv is within TOLERANCE of 0.
ReturnedAtNpv(sums) == NpvConverged(sums) /\ xirr = <<rate>>

\* The returned rate is the one a Newton step gave, within TOLERANCE of the
\* current one, the npv of the current one not being within TOLERANCE of 0.
ReturnedAtStall(sums) ==
  /\ ~NpvConverged(sums)
  /\ ~FlatSlope(sums)
  /\ xirr = <<NewRate(sums)>>
  /\ NumLess(NumAbs(NumSub(xirr[1], rate)), TOLERANCE)

\* C22: the solver returns a non-null rate only through two exits of a pass of
\* its loop, tested in this order: the current rate when |NPV(rate)| < 1e-7,
\* whatever the derivative; otherwise, after a Newton step, the updated rate
\* when it differs from the current one by less than 1e-7.  So every non-null
\* result has |NPV| < 1e-7 or lies within 1e-7 of the previous iterate.
C22_TwoExits ==
  /\ []((Solved /\ xirr # Null) =>
          CallWith(LAMBDA sums : ReturnedAtNpv(sums) \/ ReturnedAtStall(sums), SumsAtRate))
  /\ [][ (xirr' # xirr) =>
           \/ xirr' = Null
           \/ pc = "newton" /\ iter < MAX_ITERATIONS /\ pc' = "solved" /\ rate' = rate ]_vars
  /\ [][ (pc = "newton" /\ iter < MAX_ITERATIONS /\ CallWith(NpvConverged, SumsAtRate)) =>
           (pc' = "solved" /\ xirr' = <<rate>>) ]_vars

\* C22 witness: a rate was returned after a Newton step, in a pass that
\* followed at least one other.
C22_Witness ==
  /\ Solved
  /\ xirr # Null
  /\ iter > 0
  /\ CallWith(ReturnedAtStall, SumsAtRate)

\* The current rate was returned in the first pass, the derivative being
\* within TOLERANCE of 0 as well.
NpvExitOnFlatSlope ==
  /\ Solved
  /\ xirr = <<Guess>>
  /\ iter = 0
  /\ CallWith(LAMBDA sums : ReturnedAtNpv(sums) /\ FlatSlope(sums), SumsAtRate)

\* The current rate was returned after at least one Newton step.
NpvExitAfterSteps ==
  /\ Solved
  /\ xirr # Null
  /\ iter > 0
  /\ CallWith(ReturnedAtNpv, SumsAtRate)

\* The npv of the sums is not within TOLERANCE of 0 and their derivative is.
Nudged(sums) == ~NpvConverged(sums) /\ FlatSlope(sums)

\* C23: in a pass of the loop in which the npv has not converged and the
\* derivative is within 1e-7 of 0, the solver does not divide by the
\* derivative: the rate becomes rate + 0.1, nothing is returned, and the pass
\* counts among the MAX_ITERATIONS passes.
C23_FlatSlopeNudges ==
  [][ (pc = "newton" /\ iter < MAX_ITERATIONS /\ CallWith(Nudged, SumsAtRate)) =>
        /\ rate' = NumAdd(rate, Dec(1, -1))
        /\ iter' = iter + 1
        /\ pc' = "newton"
        /\ xirr' = xirr ]_vars

\* C23 witness: the first pass found the npv away from 0 and a flat slope at
\* the guess, and the second begins at the guess + 0.1.
C23_Witness ==
  /\ pc = "newton"
  /\ iter = 1
  /\ rate = NumAdd(Guess, Dec(1, -1))
  /\ CallWith(Nudged, NpvAndDerivative(yearFractions, Guess, Len(yearFractions)))

\* A flat slope met after passes that took Newton steps.
NudgedAfterSteps ==
  /\ pc = "newton"
  /\ iter > 1
  /\ NumLess(Num(10), rate)

(***************************************************************************)
(* The solver and the order of its flows.                                  *)
(***************************************************************************)
\* The loop taken step by step returns what calculateXIRR gives.
SolverAgrees == Solved => xirr = calculateXIRR(cashFlows)

\* The lists that hold the flows of a list, each as often, in some order.
Reorderings(flows) ==
  { [n \in 1..Len(flows) |-> flows[f[n]]] :
      f \in { h \in [1..Len(flows) -> 1..Len(flows)] :
                \A i, j \in 1..Len(flows) : i # j => h[i] # h[j] } }

\* C24 as stated: year fractions are measured from the earliest flow whatever
\* the order of the list, the earliest flow has year fraction 0, every year
\* fraction is >= 0, and the solver returns the same for every permutation of
\* the flows.
C24_SameForEveryPermutation ==
  Solved =>
    /\ \A n \in 1..Len(yearFractions) : ~NumLess(yearFractions[n].years, NumZero)
    /\ yearFractions # <<>> => yearFractions[1].years = NumZero
    /\ \A p \in Reorderings(cashFlows) : calculateXIRR(p) = xirr

\* The reorderings of a list that keep flows of one date in their order.
KeepingDateOrder(flows) ==
  { [n \in 1..Len(flows) |-> flows[f[n]]] :
      f \in { h \in [1..Len(flows) -> 1..Len(flows)] :
                /\ \A i, j \in 1..Len(flows) : i # j => h[i] # h[j]
                /\ \A i, j \in 1..Len(flows) :
                     (i < j /\ flows[h[i]].date = flows[h[j]].date) => h[i] < h[j] } }

\* C24: year fractions are measured from the earliest flow whatever the order
\* of the list: the earliest flow has year fraction 0 and every year fraction is
\* >= 0; every permutation of the flows gives the same year fractions, in an
\* order that differs at most among flows of one date; and the solver returns
\* the same for every permutation that keeps the flows of one date in their
\* relative order.
C24_SameForDateOrderKept ==
  /\ \A n \in 1..Len(yearFractions) : ~NumLess(yearFractions[n].years, NumZero)
  /\ yearFractions # <<>> => yearFractions[1].years = NumZero
  /\ (Solved /\ ~NoRate(cashFlows)) =>
       /\ \A n \in 2..Len(yearFractions) :
            ~NumLess(yearFractions[n].years, yearFractions[n - 1].years)
       /\ \A p \in Reorderings(cashFlows) : YearFractions(p) \in Reorderings(yearFractions)
  /\ Solved => \A p \in KeepingDateOrder(cashFlows) : calculateXIRR(p) = xirr

\* C24 witness: a rate has been returned for three flows of three dates, the
\* earliest of them not supplied first.
C24_Witness ==
  /\ Solved
  /\ xirr # Null
  /\ Len(cashFlows) = 3
  /\ cashFlows[2].date < cashFlows[1].date
  /\ cashFlows[2].date < cashFlows[3].date
  /\ cashFlows[1].date # cashFlows[3].date
  /\ Cardinality(KeepingDateOrder(cashFlows)) = 6

(***************************************************************************)
(* deriveHoldings and the events of the account.                           *)
(***************************************************************************)
\* An event deriveHoldings groups under no ISIN.
IsAccountEvent(event) == isCashEvent(event) \/ isFeeEvent(event)

\* A list without its n-th element, and with one more after its n-th.
RemoveAt(list, n) == SubSeq(list, 1, n - 1) \o SubSeq(list, n + 1, Len(list))
InsertAfter(list, n, e) == SubSeq(list, 1, n) \o <<e>> \o SubSeq(list, n + 1, Len(list))

\* A deposit, a withdrawal and a fee.
AccountEvents == {Other(CASH_IN, 4, 7), Other(CASH_OUT, 0, 3), Other(FEE, 0, 2)}

\* deriveHoldings, or derivePortfolioMetrics after it, has returned.
HoldingsReturned == pc = "done"

\* C25: deriveHoldings ignores every CASH_IN, CASH_OUT and FEE event: the
\* holdings returned for a list are those of the list without one, or without
\* all, of its CASH_IN, CASH_OUT and FEE events, and those of the list with one
\* more such event at any position.
C25_AccountEventsIgnored ==
  HoldingsReturned =>
    /\ result = deriveHoldings(SelectSeq(events, LAMBDA e : ~IsAccountEvent(e)),
                               instruments, currentPrices)
    /\ \A n \in 1..Len(events) :
         IsAccountEvent(events[n]) =>
           result = deriveHoldings(RemoveAt(events, n), instruments, currentPrices)
    /\ \A n \in 0..Len(events), e \in AccountEvents :
         result = deriveHoldings(InsertAfter(events, n, e), instruments, currentPrices)

\* C25 witness: a holding was returned for a list that holds a fee or a cash
\* event before its first trade and another after it.
C25_Witness ==
  /\ HoldingsReturned
  /\ result # <<>>
  /\ Len(events) = 3
  /\ IsAccountEvent(events[1])
  /\ isTradeEvent(events[2])
  /\ IsAccountEvent(events[3])
  /\ events[1].type # events[3].type

(***************************************************************************)
(* The running cost of the fold as the code's floating-point number.       *)
(***************************************************************************)
\* No sell among the first n trades exceeds the quantity held when it is met.
NoOverSell(trades, n) ==
  \A i \in 1..n :
    IsSell(trades[i]) => trades[i].quantity <= FoldTrades(SubSeq(trades, 1, i - 1)).quantity

\* C26 as stated: when trades of one ISIN, none of them a sell of more than is
\* held, bring the running quantity to exactly 0, the running cost is exactly
\* 0 as well, so that the fold goes on as from its start.
C26_LiquidationLeavesNoCost ==
  (Folding /\ k > 0 /\ NoOverSell(sortedTrades, k) /\ quantity = 0) =>
    /\ totalCost = FoldStart.totalCost
    /\ roundedCost = NumZero

\* C27 as stated: for trades of one ISIN with amounts and fees >= 0, none of
\* them a sell of more than is held, the running cost is >= 0 after every
\* trade, and so is the costBasis of every Holding pushed.
C27_CostNeverNegative ==
  /\ (Folding /\ NoOverSell(sortedTrades, k)) =>
       /\ ~RLess(totalCost, RZero)
       /\ ~NumLess(roundedCost, NumZero)
  /\ NoOverSell(sortedTrades, Len(sortedTrades)) =>
       \A n \in 1..Len(holdings) :
         /\ ~RLess(holdings[n].costBasis, RZero)
         /\ ~NumLess(holdings[n].rounded.costBasis, NumZero)

(***************************************************************************)
(* The holding of one ISIN.                                                *)
(***************************************************************************)
\* The events, the instrument records and the prices of one ISIN.
EventsOf(isin) == SelectSeq(events, LAMBDA e : e.isin = isin)
InstrumentsOf(isin) == SelectSeq(instruments, LAMBDA i : i.isin = isin)
PriceOf(isin) == [n \in DOMAIN currentPrices \cap {isin} |-> currentPrices[n]]

\* What deriveHoldings returns for the events, record and price of one ISIN.
HoldingsFromOwn(isin) == deriveHoldings(EventsOf(isin), InstrumentsOf(isin), PriceOf(isin))

\* C28: deriveHoldings returns at most one Holding per ISIN, and the Holding of
\* an ISIN is the one returned for that ISIN's trades and dividends, its price
\* and its instrument record alone: no event of another ISIN changes a field
\* of it; and an ISIN has a Holding in the list exactly when it has one alone.
C28_OneHoldingPerIsinFromItsOwnEvents ==
  pc = "done" =>
    /\ \A i, j \in 1..Len(result) : result[i].isin = result[j].isin => i = j
    /\ \A n \in 1..Len(result) : HoldingsFromOwn(result[n].isin) = <<result[n]>>
    /\ \A isin \in Isins :
         HoldingsFromOwn(isin) # <<>> => \E n \in 1..Len(result) : result[n].isin = isin

\* C28 witness: two holdings were returned for three events, the event of the
\* one ISIN between two trades of the other.
C28_Witness ==
  /\ pc = "done"
  /\ Len(result) = 2
  /\ Len(events) = 3
  /\ isTradeEvent(events[1]) /\ isTradeEvent(events[3])
  /\ events[1].isin = events[3].isin
  /\ events[2].isin # events[1].isin
  /\ events[2].isin \in Isins

(***************************************************************************)
(* The stored events.                                                      *)
(***************************************************************************)
\* A list begins with another.
IsPrefix(s, t) == Len(s) <= Len(t) /\ SubSeq(t, 1, Len(s)) = s

\* C29: across calls of LedgerStorage.addEvents, upsertInstrument and
\* addWarning on an initialized ledger the stored events are append-only: what
\* was stored before a call is a prefix, unchanged and in its order, of what
\* is stored after it; addEvents adds exactly the events it is given, at the
\* end, as stored and as loadLedger reads them; upsertInstrument and
\* addWarning add none.
C29_StoredEventsAppendOnly ==
  /\ [][ IsPrefix(localStorage[1].events, localStorage'[1].events) ]_vars
  /\ [][ (pc' = "addEvents") =>
           /\ localStorage'[1].events
                = localStorage[1].events \o JSONStringify(events', {"isin", "fee"})
           /\ loadLedger(localStorage')[1].events
                = loadLedger(localStorage)[1].events \o events' ]_vars
  /\ [][ (pc' \in {"upsertInstrument", "addWarning"}) =>
           localStorage'[1].events = localStorage[1].events ]_vars

\* C29 witness: two events were added to a stored event after an instrument
\* of the ledger had been replaced and a warning added.
C29_Witness ==
  /\ pc = "addEvents"
  /\ Len(events) = 2
  /\ Len(localStorage[1].events) = 3
  /\ localStorage[1].events[1] # localStorage[1].events[2]
  /\ localStorage[1].warnings # <<>>
  /\ Len(localStorage[1].instruments) = 2
  /\ \E n \in 1..2 : localStorage[1].instruments[n].name = "Equinor ASA"

(***************************************************************************)
(* The application without quotes.                                         *)
(***************************************************************************)
\* C30: TallyApp never writes its currentPrices map, so in every state of
\* the application, after construction and after any confirmImport and
\* clearAllData, the map is empty, every derived holding has currentPrice 0
\* and marketValue 0, the metrics (when there are any: clearAllData leaves
\* null) have currentValue 0, and the cash flows given to the rate solver
\* are those of the events alone, without a terminal flow.
C30_NoQuotesInTheApp ==
  app # Null =>
    /\ app[1].currentPrices = NoPrices
    /\ \A n \in 1..Len(app[1].holdings) :
         app[1].holdings[n].currentPrice = 0 /\ app[1].holdings[n].marketValue = 0
    /\ app[1].metrics # Null => app[1].metrics[1].currentValue = 0
    /\ pc \in {"constructed", "imported"} =>
         /\ cashFlows = EventFlows(app[1].ledger.events)
         /\ \A n \in 1..Len(cashFlows) : cashFlows[n].date # NewDate(now)

\* C30 witness: after two imports the application holds shares of two
\* instruments, and the solver was given the flows of the three events.
C30_Witness ==
  /\ app # Null
  /\ pc = "imported"
  /\ Len(app[1].holdings) = 2
  /\ app[1].metrics # Null
  /\ Len(cashFlows) = 3
  /\ localStorage[1].warnings = <<>>
  /\ now = LastCall
====
